---- MODULE Spec2Model ----
(***************************************************************************)
(* Model of the attachment embedding engine of src-tauri/src/lib.rs:       *)
(* build_docx_with_embeddings, embed_ole_objects_into_docx,                *)
(* create_ole_package, the EMF icon patcher and the three XML patchers.    *)
(*                                                                         *)
(* Strings are sequences of Unicode code points, byte buffers are          *)
(* sequences of 0..255.  XML parts are sequences of tokens; a token stands *)
(* for the piece of text the string searches of the code can match.        *)
(***************************************************************************)
EXTENDS Integers, Sequences, FiniteSets, TLC

VARIABLES
    pc,              \* position of the export in build_docx_with_embeddings / embed_ole_objects_into_docx
    embedded_files,  \* the attachment list handed to build_docx_with_embeddings
    base_bytes,      \* the packed base document (host package)
    zip_writer,      \* entries written to the output archive so far
    next_rid,        \* get_next_relationship_id(rels_xml)
    index,           \* loop counter of the attachment loop
    result,          \* the body markup being patched by add_ole_objects_to_document_xml
    groups,          \* chapter groups of files_by_zip not yet processed
    invoked,         \* TRUE once embed_ole_objects_into_docx has been entered
    embed_ret,       \* what embed_ole_objects_into_docx returned
    ret,             \* what build_docx_with_embeddings returned
    call,            \* arguments of a call of one of the pure functions
    out,             \* the value that call returned
    other            \* the locals of a second export that is not running at the moment

vars == <<pc, embedded_files, base_bytes, zip_writer, next_rid, index, result,
          groups, invoked, embed_ret, ret, call, out, other>>

pipeVars == <<pc, embedded_files, base_bytes, zip_writer, next_rid, index, result,
              groups, invoked, embed_ret, ret>>

(***************************************************************************)
(* Bounds                                                                  *)
(***************************************************************************)
MaxNameLen == 4
MaxBudget == 10
MaxData == 2
MaxFiles == 2
MaxBody == 3
MaxTypes == 2
MaxZips == 2
MaxLines == 2

(***************************************************************************)
(* Generic sequence helpers                                                *)
(***************************************************************************)
Take(s, n) == SubSeq(s, 1, IF n < Len(s) THEN n ELSE Len(s))

Drop(s, n) == SubSeq(s, n + 1, Len(s))

RECURSIVE Flatten(_)
Flatten(ss) == IF ss = <<>> THEN <<>> ELSE Head(ss) \o Flatten(Tail(ss))

SeqsUpTo(S, n) == UNION {[1..k -> S] : k \in 0..n}

\* first 1-based position at which pat occurs in s, 0 when it does not occur
FindSub(s, pat) ==
    LET hits == {p \in 1..(Len(s) - Len(pat) + 1) : SubSeq(s, p, p + Len(pat) - 1) = pat}
    IN  IF hits = {} THEN 0 ELSE CHOOSE p \in hits : \A q \in hits : p <= q

(***************************************************************************)
(* Characters and encodings                                                *)
(***************************************************************************)
CH_a == 97
CH_dot == 46
CH_zh == 20013
CH_emoji == 128512

NameChars == {CH_a, CH_dot, CH_zh, CH_emoji}

Names == SeqsUpTo(NameChars, MaxNameLen)

\* char::encode_utf16: one code unit below U+10000, a surrogate pair above
Utf16Units(c) ==
    IF c < 65536 THEN <<c>>
    ELSE <<55296 + ((c - 65536) \div 1024), 56320 + ((c - 65536) % 1024)>>

\* s.encode_utf16().flat_map(|c| c.to_le_bytes()).collect()
Utf16LE(s) ==
    Flatten([i \in 1..Len(s) |->
        Flatten([j \in 1..Len(Utf16Units(s[i])) |->
            <<Utf16Units(s[i])[j] % 256, Utf16Units(s[i])[j] \div 256>>])])

RECURSIVE DecimalDigits(_)
DecimalDigits(n) ==
    IF n < 10 THEN <<48 + n>> ELSE DecimalDigits(n \div 10) \o <<48 + (n % 10)>>

\* two-byte GBK codes of the CJK characters of the name alphabet
GbkTable == [c \in {CH_zh} |-> <<214, 208>>]

\* encoding_rs::GBK.encode: ASCII is kept, a mapped character gives its
\* two-byte code, an unmappable one its decimal character reference
GbkChar(c) ==
    IF c < 128 THEN <<c>>
    ELSE IF c \in DOMAIN GbkTable THEN GbkTable[c]
    ELSE <<38, 35>> \o DecimalDigits(c) \o <<59>>

GbkEncode(s) == Flatten([i \in 1..Len(s) |-> GbkChar(s[i])])

\* (n as u32).to_le_bytes(): the four low-order bytes of n, lowest first
LE32(n) == <<n % 256, (n \div 256) % 256, (n \div 65536) % 256, (n \div 16777216) % 256>>

FromLE32(b) == b[1] + 256 * b[2] + 65536 * b[3] + 16777216 * b[4]

is_ascii_alphabetic(c) == (c >= 65 /\ c <= 90) \/ (c >= 97 /\ c <= 122)

IsCjk(c) == c > 19968 /\ c < 40959

IsSeparator(c) == c = 95 \/ c = 45 \/ c = 32 \/ c = 46

(***************************************************************************)
(* Path::extension / Path::file_stem on a name without path separators    *)
(***************************************************************************)
LastDot(s) ==
    LET ds == {i \in 1..Len(s) : s[i] = CH_dot}
    IN  IF ds = {} THEN 0 ELSE CHOOSE i \in ds : \A j \in ds : j <= i

\* the extension, <<>> standing for both "none" and "empty"
PathExtension(s) ==
    IF s = <<CH_dot, CH_dot>> \/ LastDot(s) <= 1 THEN <<>>
    ELSE Drop(s, LastDot(s))

PathFileStem(s) ==
    IF s = <<CH_dot, CH_dot>> \/ LastDot(s) <= 1 THEN s
    ELSE Take(s, LastDot(s) - 1)

(***************************************************************************)
(* truncate_filename_to_bytes                                              *)
(***************************************************************************)
Ellipsis == <<CH_dot, CH_dot>>

ExtWithDot(filename) ==
    IF PathExtension(filename) # <<>> THEN <<CH_dot>> \o PathExtension(filename) ELSE <<>>

\* max_bytes.saturating_sub(ext_bytes.len() + ellipsis_bytes.len())
AvailableForStem(filename, max_bytes) ==
    LET need == Len(Utf16LE(ExtWithDot(filename))) + Len(Utf16LE(Ellipsis))
    IN  IF max_bytes > need THEN max_bytes - need ELSE 0

\* variant of StemSearch that accepts a prefix only when it leaves a byte free
RECURSIVE StemSearchStrict(_, _, _, _, _)
StemSearchStrict(stem_chars, available, left, right, best_len) ==
    IF left > right THEN best_len
    ELSE LET mid == (left + right) \div 2
         IN  IF Len(Utf16LE(Take(stem_chars, mid))) < available
             THEN StemSearchStrict(stem_chars, available, mid + 1, right, mid)
             ELSE StemSearchStrict(stem_chars, available, left, mid - 1, best_len)

\* the while loop of the binary search; yields best_len
RECURSIVE StemSearch(_, _, _, _, _)
StemSearch(stem_chars, available, left, right, best_len) ==
    IF left > right THEN best_len
    ELSE LET mid == (left + right) \div 2
         IN  IF Len(Utf16LE(Take(stem_chars, mid))) <= available
             THEN StemSearch(stem_chars, available, mid + 1, right, mid)
             ELSE StemSearch(stem_chars, available, left, mid - 1, best_len)

BestLen(filename, max_bytes) ==
    StemSearch(PathFileStem(filename), AvailableForStem(filename, max_bytes),
               0, Len(PathFileStem(filename)), 0)

\* the backward scan "for i in (0..best_len).rev()", i is the 0-based index
RECURSIVE BetterPosScan(_, _, _)
BetterPosScan(stem_chars, i, best_len) ==
    IF i < 0 THEN best_len
    ELSE IF IsSeparator(stem_chars[i + 1]) \/ IsCjk(stem_chars[i + 1]) THEN i
    ELSE IF i > 0 /\ IsCjk(stem_chars[i]) /\ is_ascii_alphabetic(stem_chars[i + 1]) THEN i
    ELSE BetterPosScan(stem_chars, i - 1, best_len)

\* variant of FinalStem that takes the boundary however far back it lies
FinalStemAnyBoundary(stem_chars, best_len) ==
    IF best_len > 0 /\ best_len < Len(stem_chars) /\ is_ascii_alphabetic(stem_chars[best_len])
    THEN Take(stem_chars, BetterPosScan(stem_chars, best_len - 1, best_len))
    ELSE Take(stem_chars, best_len)

FinalStem(stem_chars, best_len) ==
    IF best_len > 0 /\ best_len < Len(stem_chars) /\ is_ascii_alphabetic(stem_chars[best_len])
    THEN LET better_pos == BetterPosScan(stem_chars, best_len - 1, best_len)
         IN  IF better_pos > best_len \div 2 THEN Take(stem_chars, better_pos)
             ELSE Take(stem_chars, best_len)
    ELSE Take(stem_chars, best_len)

truncate_filename_to_bytes(filename, max_bytes) ==
    IF Len(Utf16LE(filename)) <= max_bytes THEN filename
    ELSE IF AvailableForStem(filename, max_bytes) < 4
         THEN LET max_chars == max_bytes \div 2
              IN  Take(filename, IF max_chars > 0 THEN max_chars - 1 ELSE 0)
    ELSE FinalStem(PathFileStem(filename), BestLen(filename, max_bytes))
            \o Ellipsis \o ExtWithDot(filename)

(***************************************************************************)
(* replace_filename_in_emf and get_default_emf_icon                        *)
(***************************************************************************)
\* A call either returns a buffer or aborts on an out-of-range index.
Returned(b) == [ok |-> TRUE, bytes |-> b]

Panicked == [ok |-> FALSE, bytes |-> <<>>]

\* emf_data.windows(n).position(..): 0-based offset of the first match, -1 for None
WindowsPosition(emf_data, old_utf16) == FindSub(emf_data, old_utf16) - 1

\* variant of PatchAt that splices the new name in place of the placeholder
PatchAtSplice(emf_data, pos, new_utf16, available_space) ==
    Returned(Take(emf_data, pos) \o new_utf16 \o Drop(emf_data, pos + available_space))

\* variant of PatchAt that leaves the rest of the placeholder as it was
PatchAtNoFill(emf_data, pos, new_utf16, available_space) ==
    IF pos + Len(new_utf16) > Len(emf_data) THEN Panicked
    ELSE Returned([k \in 1..Len(emf_data) |->
            IF k > pos /\ k <= pos + Len(new_utf16) THEN new_utf16[k - pos]
            ELSE emf_data[k]])

\* the two write loops: emf_data[pos + i] = byte, then zero fill up to available_space
PatchAt(emf_data, pos, new_utf16, available_space) ==
    IF pos + Len(new_utf16) > Len(emf_data) THEN Panicked
    ELSE Returned([k \in 1..Len(emf_data) |->
            IF k > pos /\ k <= pos + Len(new_utf16) THEN new_utf16[k - pos]
            ELSE IF k > pos + Len(new_utf16) /\ k <= pos + available_space THEN 0
            ELSE emf_data[k]])

replace_filename_in_emf(emf_data, old_filename, new_filename) ==
    LET old_utf16 == Utf16LE(old_filename)
        pos == WindowsPosition(emf_data, old_utf16)
    IN  IF old_utf16 = <<>> THEN Panicked
        ELSE IF pos < 0 THEN Returned(emf_data)
        ELSE PatchAt(emf_data, pos,
                     Utf16LE(truncate_filename_to_bytes(new_filename, Len(old_utf16))),
                     Len(old_utf16))

FileTypes == {"Video", "PDF", "Image", "Document", "Excel", "ZIP", "Other"}

\* the placeholder names compiled into get_default_emf_icon
VideoPlaceholder == <<113, 113, 101, 114, 30340, 25238, 38899, 95, 46, 109, 112, 52>>

PdfPlaceholder ==
    <<48, 95, 49, 28145, 23380, 21051, 34432, 65292, 21487, 21161, 51, 48, 48, 23618,
      51, 68, 32, 78, 65, 78, 68, 21046, 36896, 32, 45, 32, 20170, 26085, 22836, 26465,
      46, 112, 100, 102>>

ExcelPlaceholder == <<50, 48, 95, 48, 55, 52, 54, 52, 52, 46, 120, 108, 115, 120>>

ZipPlaceholder == <<90, 76, 49, 46, 122, 105, 112>>

HasPlaceholder(file_type) == file_type \in {"Video", "PDF", "Excel", "Document", "ZIP"}

OldFilename(file_type) ==
    CASE file_type = "Video" -> VideoPlaceholder
      [] file_type = "PDF" -> PdfPlaceholder
      [] file_type \in {"Excel", "Document"} -> ExcelPlaceholder
      [] file_type = "ZIP" -> ZipPlaceholder
      [] OTHER -> <<>>

\* The bundled icon assets (icon_video.emf, icon_pdf.emf, icon_excel.emf,
\* icon_zip.emf, ole_package_icon.emf): a header record, the placeholder
\* name in UTF-16LE where the asset holds one, and the records after it.
\* The layout says where the placeholder sits: followed by other records,
\* last in the buffer, or not there at all.
EmfHeader == <<1, 0, 0, 0, 108, 0>>

EmfTrailer == <<14, 0, 0, 0, 20, 0>>

IconLayouts == {"middle", "last", "absent"}

IconTemplate(file_type, layout) ==
    IF ~HasPlaceholder(file_type) \/ layout = "absent" THEN EmfHeader \o EmfTrailer
    ELSE IF layout = "last" THEN EmfHeader \o Utf16LE(OldFilename(file_type))
    ELSE EmfHeader \o Utf16LE(OldFilename(file_type)) \o EmfTrailer

get_default_emf_icon(file_type, filename, layout) ==
    IF ~HasPlaceholder(file_type) THEN Returned(IconTemplate(file_type, layout))
    ELSE replace_filename_in_emf(IconTemplate(file_type, layout), OldFilename(file_type), filename)

(***************************************************************************)
(* create_comp_obj_stream and create_ole_package                           *)
(***************************************************************************)
LE16(n) == <<n % 256, (n \div 256) % 256>>

PackageClsid == <<12, 0, 0, 0, 0, 0, 0, 0, 192, 0, 0, 0, 0, 0, 0, 70>>

\* "Package"
UserType == <<80, 97, 99, 107, 97, 103, 101>>

create_comp_obj_stream(filename) ==
    LE16(1) \o LE16(65534) \o LE32(2563) \o <<255, 255, 255, 255>> \o PackageClsid
        \o LE32(Len(UserType)) \o UserType \o <<0>> \o LE32(0) \o LE32(0)

\* "C:/"
OriginalPathPrefix == <<67, 58, 47>>

\* "C:\Users\Public\"
TempPathPrefix == <<67, 58, 92, 85, 115, 101, 114, 115, 92, 80, 117, 98, 108, 105, 99, 92>>

\* variant of TempPathLen that forgets the zero terminator
TempPathLenNoTerminator(name) == Len(GbkEncode(TempPathPrefix \o name))

\* temp_path_len: the encoded path plus its zero terminator
TempPathLen(name) == Len(GbkEncode(TempPathPrefix \o name)) + 1

\* variant of NativeData with the three-byte separator 00 00 03
NativeDataShortSeparator(name, data) ==
    LE32(Len(data)) \o <<2, 0>> \o GbkEncode(name) \o <<0>>
        \o GbkEncode(OriginalPathPrefix \o name) \o <<0>>
        \o <<0, 0, 3>>
        \o LE32(TempPathLen(name)) \o GbkEncode(TempPathPrefix \o name) \o <<0>>
        \o LE32(Len(data)) \o data

\* the bytes of the \x01Ole10Native stream
NativeData(name, data) ==
    LE32(Len(data)) \o <<2, 0>>
        \o GbkEncode(name) \o <<0>>
        \o GbkEncode(OriginalPathPrefix \o name) \o <<0>>
        \o <<0, 0, 3, 0>>
        \o LE32(TempPathLen(name)) \o GbkEncode(TempPathPrefix \o name) \o <<0>>
        \o LE32(Len(data)) \o data

\* the compound file: its two named streams
create_ole_package(file) ==
    [Ole10Native |-> NativeData(file.name, file.data),
     CompObj |-> create_comp_obj_stream(file.name)]

(***************************************************************************)
(* Packages: an archive is a sequence of named entries                     *)
(***************************************************************************)
PartName(dir, base, n, ext) == [dir |-> dir, base |-> base, n |-> n, ext |-> ext]

DocumentXml == PartName(<<"word">>, "document", 0, "xml")

DocumentRels == PartName(<<"word", "_rels">>, "document.xml", 0, "rels")

ContentTypesXml == PartName(<<>>, "[Content_Types]", 0, "xml")

RootRels == PartName(<<"_rels">>, "", 0, "rels")

StylesXml == PartName(<<"word">>, "styles", 0, "xml")

files_to_modify == {DocumentXml, DocumentRels, ContentTypesXml}

\* format!("word/embeddings/oleObject{}.bin", n) and format!("word/media/image{}.emf", n)
OleFilename(n) == PartName(<<"word", "embeddings">>, "oleObject", n, "bin")

IconFilename(n) == PartName(<<"word", "media">>, "image", n, "emf")

\* variant of OleTarget that numbers the containers from 0
OleTargetFromZero(n) == PartName(<<"embeddings">>, "oleObject", n - 1, "bin")

\* format!("embeddings/oleObject{}.bin", n) and format!("media/image{}.emf", n)
OleTarget(n) == PartName(<<"embeddings">>, "oleObject", n, "bin")

ImgTarget(n) == PartName(<<"media">>, "image", n, "emf")

Xml(tokens) == [kind |-> "xml", tokens |-> tokens]

Entry(name, content) == [name |-> name, content |-> content]

Archive(parts) == [isZip |-> TRUE, parts |-> parts]

\* a byte buffer that ZipArchive::new rejects
NotAnArchive == [isZip |-> FALSE, parts |-> <<>>]

HasPart(archive, name) == \E i \in 1..Len(archive.parts) : archive.parts[i].name = name

\* archive.by_name(path): the content of the entry of that name
PartContent(archive, name) ==
    archive.parts[CHOOSE i \in 1..Len(archive.parts) : archive.parts[i].name = name].content

(***************************************************************************)
(* Tokens of the three XML parts                                           *)
(***************************************************************************)
ZipIds == {<<1>>, <<2>>, <<1, 0>>}

TextTok == [kind |-> "text"]

\* the closing paragraph tag "</w:p>"
PEndTok == [kind |-> "pend"]

\* the text "EMBED_MARKER_" followed by a chapter id
MarkerTok(zip_id) == [kind |-> "marker", zip_id |-> zip_id]

NewlineTok == [kind |-> "nl"]

\* <Relationship Id=.. Target=../>; numeric says the id has the form rId<digits>
RelTok(numeric, rid, type, target) ==
    [kind |-> "rel", numeric |-> numeric, rid |-> rid, type |-> type, target |-> target]

CloseRelsTok == [kind |-> "close_rels"]

DefaultTok(ext) == [kind |-> "default", ext |-> ext]

CloseTypesTok == [kind |-> "close_types"]

ReplaceAll(s, tok, repl) ==
    Flatten([i \in 1..Len(s) |-> IF s[i] = tok THEN repl ELSE <<s[i]>>])

(***************************************************************************)
(* get_next_relationship_id                                                *)
(***************************************************************************)
RECURSIVE MaxRelId(_, _)
\* the loop over the captures of Id="rId(\d+)"
MaxRelId(rels_xml, max_id) ==
    IF rels_xml = <<>> THEN max_id
    ELSE LET t == Head(rels_xml)
         IN  IF t.kind = "rel" /\ t.numeric /\ t.rid > max_id
             THEN MaxRelId(Tail(rels_xml), t.rid)
             ELSE MaxRelId(Tail(rels_xml), max_id)

\* variant of get_next_relationship_id that starts at the largest id in use
NextIdIsMaxId(rels_xml) == MaxRelId(rels_xml, 0)

get_next_relationship_id(rels_xml) == MaxRelId(rels_xml, 0) + 1

(***************************************************************************)
(* add_ole_objects_to_document_xml                                         *)
(***************************************************************************)
\* variant of FragTok that gives every shape the first shape id
FragTokFirstShape(idx, start_rid) ==
    [kind |-> "frag",
     paraId |-> 268435456 + idx,
     shape_id |-> 1025,
     ole_shape_id |-> 1025,
     object_id |-> idx,
     img_rid |-> start_rid + idx * 2 + 1,
     ole_rid |-> start_rid + idx * 2]

\* the <w:p>..<w:object>..</w:object>..</w:p> paragraph written for one file
FragTok(idx, start_rid) ==
    [kind |-> "frag",
     paraId |-> 268435456 + idx,
     shape_id |-> 1025 + idx,
     ole_shape_id |-> 1025 + idx,
     object_id |-> idx,
     img_rid |-> start_rid + idx * 2 + 1,
     ole_rid |-> start_rid + idx * 2]

\* files_by_zip: the 0-based list indexes of the files of one chapter, in list order
RECURSIVE GroupIndexes(_, _, _)
GroupIndexes(files, zip_id, from) ==
    IF from > Len(files) THEN <<>>
    ELSE (IF files[from].zip_id = zip_id THEN <<from - 1>> ELSE <<>>)
            \o GroupIndexes(files, zip_id, from + 1)

GroupKeys(files) == {files[i].zip_id : i \in 1..Len(files)}

\* variant of ObjectsXml that numbers the files within their chapter
ObjectsXmlLocalIndex(files, zip_id, start_rid) ==
    LET idxs == GroupIndexes(files, zip_id, 1)
    IN  Flatten([k \in 1..Len(idxs) |-> <<NewlineTok, FragTok(k - 1, start_rid), NewlineTok>>])

\* objects_xml of one chapter
ObjectsXml(files, zip_id, start_rid) ==
    LET idxs == GroupIndexes(files, zip_id, 1)
    IN  Flatten([k \in 1..Len(idxs) |-> <<NewlineTok, FragTok(idxs[k], start_rid), NewlineTok>>])

IsPrefix(p, s) == Len(p) <= Len(s) /\ SubSeq(s, 1, Len(p)) = p

\* result.find(&marker): the marker text occurs where a marker token carries
\* an id that starts with zip_id
MatchesMarker(tok, zip_id) == tok.kind = "marker" /\ IsPrefix(zip_id, tok.zip_id)

FindMarker(body, zip_id) ==
    LET hits == {i \in 1..Len(body) : MatchesMarker(body[i], zip_id)}
    IN  IF hits = {} THEN 0 ELSE CHOOSE i \in hits : \A j \in hits : i <= j

\* variant of FindParagraphEnd that stops at the marker itself
FindParagraphEndAtMarker(body, pos) == pos

\* result[pos..].find("</w:p>"): a closing tag is a pend token or the end of a fragment
EndsParagraph(tok) == tok.kind \in {"pend", "frag"}

\* variant of FindParagraphEnd that takes the last closing tag of the body
FindParagraphEndLast(body, pos) ==
    LET hits == {i \in pos..Len(body) : EndsParagraph(body[i])}
    IN  IF hits = {} THEN 0 ELSE CHOOSE i \in hits : \A j \in hits : i >= j

FindParagraphEnd(body, pos) ==
    LET hits == {i \in pos..Len(body) : EndsParagraph(body[i])}
    IN  IF hits = {} THEN 0 ELSE CHOOSE i \in hits : \A j \in hits : i <= j

\* variant of InsertChapter that writes the fragments over the closing tag
InsertChapterOverTag(body, files, zip_id, start_rid) ==
    LET pos == FindMarker(body, zip_id)
        end_pos == IF pos = 0 THEN 0 ELSE FindParagraphEnd(body, pos)
    IN  IF pos = 0 \/ end_pos = 0 THEN body
        ELSE Take(body, end_pos - 1) \o ObjectsXml(files, zip_id, start_rid) \o Drop(body, end_pos)

\* variant of InsertChapter that loses the body when the marker is not found
InsertChapterClearing(body, files, zip_id, start_rid) ==
    LET pos == FindMarker(body, zip_id)
        end_pos == IF pos = 0 THEN 0 ELSE FindParagraphEnd(body, pos)
    IN  IF pos = 0 \/ end_pos = 0 THEN <<>>
        ELSE Take(body, end_pos) \o ObjectsXml(files, zip_id, start_rid) \o Drop(body, end_pos)

\* one iteration of the loop over files_by_zip
InsertChapter(body, files, zip_id, start_rid) ==
    LET pos == FindMarker(body, zip_id)
        end_pos == IF pos = 0 THEN 0 ELSE FindParagraphEnd(body, pos)
    IN  IF pos = 0 \/ end_pos = 0 THEN body
        ELSE Take(body, end_pos) \o ObjectsXml(files, zip_id, start_rid) \o Drop(body, end_pos)

(***************************************************************************)
(* add_ole_relationships_to_rels and add_ole_content_types                 *)
(***************************************************************************)
\* variant of NewRels that registers the containers but not the icons
NewRelsOleOnly(files, start_rid) ==
    Flatten([k \in 1..Len(files) |->
        <<RelTok(TRUE, start_rid + (k - 1) * 2, "oleObject", OleTarget(k))>>])

\* new_rels: two entries per file, in list order
NewRels(files, start_rid) ==
    Flatten([k \in 1..Len(files) |->
        <<RelTok(TRUE, start_rid + (k - 1) * 2, "oleObject", OleTarget(k)),
          RelTok(TRUE, start_rid + (k - 1) * 2 + 1, "image", ImgTarget(k))>>])

add_ole_relationships_to_rels(rels_xml, files, start_rid) ==
    ReplaceAll(rels_xml, CloseRelsTok, NewRels(files, start_rid) \o <<CloseRelsTok>>)

DeclaresExtension(content_types_xml, ext) ==
    \E i \in 1..Len(content_types_xml) :
        content_types_xml[i].kind = "default" /\ content_types_xml[i].ext = ext

\* variant of EnsureDefault that does not look for an existing declaration
EnsureDefaultAlways(content_types_xml, ext) ==
    ReplaceAll(content_types_xml, CloseTypesTok, <<DefaultTok(ext), CloseTypesTok>>)

EnsureDefault(content_types_xml, ext) ==
    IF DeclaresExtension(content_types_xml, ext) THEN content_types_xml
    ELSE ReplaceAll(content_types_xml, CloseTypesTok, <<DefaultTok(ext), CloseTypesTok>>)

add_ole_content_types(content_types_xml) ==
    EnsureDefault(EnsureDefault(content_types_xml, "bin"), "emf")

(***************************************************************************)
(* build_bundle_zip_bytes                                                  *)
(* A path is the sequence of its components; fs is the set of the paths    *)
(* that fs::read can read, and the bytes of a file are named by its path.  *)
(***************************************************************************)
\* zip_path: the stored copy, or the imported file when stored_path is blank
ZipPath(z) == IF z.stored_path \notin {<<>>, <<" ">>} THEN z.stored_path ELSE z.source_path

safe_basename(path) == IF path = <<>> THEN "" ELSE path[Len(path)]

\* variant of ZipDir that puts every ZIP into the shared directory
ZipDirShared(id) == <<"attachments", "">>

\* format!("attachments/{}/", z.id)
ZipDir(id) == <<"attachments", id, "">>

\* the paths one iteration of the loop over batch.zips reads
PathsRead(z) ==
    (IF z.include_original_zip THEN {ZipPath(z)} ELSE {})
        \cup {z.video_files[i] : i \in 1..Len(z.video_files)}
        \cup {z.pdf_files[i] : i \in 1..Len(z.pdf_files)}

\* the entries one iteration of the loop over batch.zips writes
ZipEntries(z) ==
    LET zip_dir == ZipDir(z.id)
        \* format!("{zip_dir}{}", name) with the bytes read from path
        File(name, path) ==
            Entry(SubSeq(zip_dir, 1, Len(zip_dir) - 1) \o <<name>>,
                  [kind |-> "file", bytes |-> path])
    IN  <<Entry(zip_dir, [kind |-> "dir", bytes |-> <<>>])>>
            \o (IF z.include_original_zip THEN <<File(z.filename, ZipPath(z))>> ELSE <<>>)
            \o [i \in 1..Len(z.video_files) |->
                    File(safe_basename(z.video_files[i]), z.video_files[i])]
            \o [i \in 1..Len(z.pdf_files) |->
                    File(safe_basename(z.pdf_files[i]), z.pdf_files[i])]

\* Err when a read fails, else the entries in the order they are written;
\* <<"summary.docx">> stands for the name of the summary document
build_bundle_zip_bytes(batch, docx_bytes, fs) ==
    IF \E i \in 1..Len(batch) : ~(PathsRead(batch[i]) \subseteq fs)
    THEN [ok |-> FALSE, entries |-> <<>>]
    ELSE [ok |-> TRUE,
          entries |-> <<Entry(<<"summary.docx">>, [kind |-> "file", bytes |-> docx_bytes]),
                        Entry(<<"attachments", "">>, [kind |-> "dir", bytes |-> <<>>])>>
                        \o Flatten([i \in 1..Len(batch) |-> ZipEntries(batch[i])])]

(***************************************************************************)
(* export_bundle_zip_with_embeddings: the configuration and the list of    *)
(* attachments.  A path is a record with what fs::metadata and             *)
(* Path::exists say of it.                                                 *)
(***************************************************************************)
\* Err (ok = FALSE) for a file above MAX_FILE_SIZE, else the attachment
create_embedded_file(path, zip_id) ==
    LET MAX_FILE_SIZE == 100 * 1024 * 1024
    IN  [ok |-> path.len <= MAX_FILE_SIZE, path |-> path.path, len |-> path.len,
         zip_id |-> zip_id]

\* all_embedded_files: per ZIP its videos, PDFs, Excel files and, when asked
\* for, the stored ZIP; a path that is missing or refused is passed over
build_enhanced_summary_docx(batch, embed_files) ==
    LET Paths(z) ==
            z.video_files \o z.pdf_files \o z.excel_files
                \o (IF z.include_original_zip THEN <<z.stored_path>> ELSE <<>>)
        Embedded(z) ==
            LET found == SelectSeq(Paths(z), LAMBDA path : path.exists)
                made == [k \in 1..Len(found) |-> create_embedded_file(found[k], z.id)]
            IN  SelectSeq(made, LAMBDA f : f.ok)
    IN  IF embed_files THEN Flatten([i \in 1..Len(batch) |-> Embedded(batch[i])]) ELSE <<>>

\* the configuration the command builds and the attachments it embeds
export_bundle_zip_with_embeddings(batch, embed_files, max_file_size_mb) ==
    LET default == [enabled |-> TRUE, max_file_size |-> 10 * 1024 * 1024]
        config ==
            IF embed_files
            THEN [default EXCEPT !.max_file_size =
                        IF max_file_size_mb >= 0 THEN max_file_size_mb * 1024 * 1024 ELSE @]
            ELSE [default EXCEPT !.enabled = FALSE]
    IN  [config |-> config, embedded_files |-> build_enhanced_summary_docx(batch, embed_files)]

(***************************************************************************)
(* extract_all_fields and extract_fields_from_docx.  A line of the text is *)
(* a record: a field line (RE_FIELD matches it; key and captured value), a *)
(* blank line, a line that is_table_header_or_content accepts, or other    *)
(* text.  The keys carry the names of the WordFields they fill.  A string  *)
(* of several lines is the sequence of its lines, "" the empty sequence.   *)
(***************************************************************************)
\* NBSP and the ideographic space become a space, the full-width colon a colon
normalize_text(s) ==
    [k \in 1..Len(s) |->
        IF s[k] \in {160, 12288} THEN 32 ELSE IF s[k] = 65306 THEN 58 ELSE s[k]]

RECURSIVE normalize_instruction_content_with_format(_)
\* every line cleaned, the line breaks at both ends trimmed off (the lines
\* come trimmed, so trim_end changes nothing)
normalize_instruction_content_with_format(lines) ==
    IF lines # <<>> /\ Head(lines) = <<>>
    THEN normalize_instruction_content_with_format(Tail(lines))
    ELSE IF lines # <<>> /\ lines[Len(lines)] = <<>>
    THEN normalize_instruction_content_with_format(SubSeq(lines, 1, Len(lines) - 1))
    ELSE [k \in 1..Len(lines) |-> normalize_text(lines[k])]

RECURSIVE CollectContentLinesConsuming(_, _, _)
\* variant of CollectContentLines that steps over the field line it stops at
CollectContentLinesConsuming(lines, i, content_lines) ==
    LET Utf8Len(c) == IF c < 128 THEN 1 ELSE IF c < 2048 THEN 2 ELSE IF c < 65536 THEN 3 ELSE 4
        next_line == lines[i + 1]
        \* next_line.len(): the bytes of its UTF-8 encoding
        len == LET bytes[k \in 0..Len(next_line.v)] ==
                       IF k = 0 THEN 0 ELSE bytes[k - 1] + Utf8Len(next_line.v[k])
               IN  bytes[Len(next_line.v)]
    IN  IF i >= Len(lines) THEN [i |-> i, content_lines |-> content_lines]
        ELSE IF next_line.kind = "field" THEN [i |-> i + 1, content_lines |-> content_lines]
        ELSE IF next_line.kind = "blank"
        THEN CollectContentLinesConsuming(lines, i + 1, content_lines)
        ELSE IF next_line.kind = "table" THEN [i |-> i, content_lines |-> content_lines]
        ELSE CollectContentLinesConsuming(lines, i + 1,
                IF len > 3 THEN Append(content_lines, next_line.v) ELSE content_lines)

RECURSIVE CollectContentLines(_, _, _)
\* the inner loop, entered with the 0-based index i of the line after the
\* key line: where it stops and the lines it kept.  (The lines it compares
\* with the bare key words are table lines, which stop it before.)
CollectContentLines(lines, i, content_lines) ==
    LET Utf8Len(c) == IF c < 128 THEN 1 ELSE IF c < 2048 THEN 2 ELSE IF c < 65536 THEN 3 ELSE 4
        next_line == lines[i + 1]
        \* next_line.len(): the bytes of its UTF-8 encoding
        len == LET bytes[k \in 0..Len(next_line.v)] ==
                       IF k = 0 THEN 0 ELSE bytes[k - 1] + Utf8Len(next_line.v[k])
               IN  bytes[Len(next_line.v)]
    IN  IF i >= Len(lines) THEN [i |-> i, content_lines |-> content_lines]
        ELSE IF next_line.kind = "field" THEN [i |-> i, content_lines |-> content_lines]
        ELSE IF next_line.kind = "blank" THEN CollectContentLines(lines, i + 1, content_lines)
        ELSE IF next_line.kind = "table" THEN [i |-> i, content_lines |-> content_lines]
        ELSE CollectContentLines(lines, i + 1,
                IF len > 3 THEN Append(content_lines, next_line.v) ELSE content_lines)

\* the first value that is not empty ("" for none); the values of the map
\* are trimmed already
first_nonempty(values) ==
    LET hits == {k \in 1..Len(values) : values[k] # <<>>}
    IN  IF hits = {} THEN <<>> ELSE values[CHOOSE k \in hits : \A j \in hits : k <= j]

\* the idle values of the variables of a function call
NoCall ==
    [op |-> "none", filename |-> <<>>, max_bytes |-> 0, emf_data |-> <<>>,
     old_filename |-> <<>>, file_type |-> "Other", layout |-> "absent", data |-> <<>>,
     content_types_xml |-> <<>>, batch |-> <<>>, fs |-> {},
     embed_files |-> FALSE, max_file_size_mb |-> -1, lines |-> <<>>]

NoPackage == [Ole10Native |-> <<>>, CompObj |-> <<>>]

\* best_len is -1 as long as no binary search has run; max_file_size_mb of a
\* call is -1 for None
NoOut ==
    [done |-> FALSE, name |-> <<>>, best_len |-> -1, icon |-> Returned(<<>>),
     package |-> NoPackage, types |-> <<>>, again |-> FALSE, types_again |-> <<>>,
     bundle |-> [ok |-> FALSE, entries |-> <<>>],
     export |-> [config |-> [enabled |-> FALSE, max_file_size |-> 0], embedded_files |-> <<>>],
     i |-> 0,
     fields |-> [instruction_no |-> <<>>, title |-> <<>>, issued_at |-> <<>>, content |-> <<>>],
     word_fields |-> [instruction_no |-> <<>>, title |-> <<>>, issued_at |-> <<>>,
                      content |-> <<>>]]

(***************************************************************************)
(* Inputs of an export: the packed base document and the attachment list   *)
(***************************************************************************)
\* the marker of a chapter without attachments is plain text to the patch
BodyTokens == {PEndTok} \cup {MarkerTok(z) : z \in ZipIds}

Bodies == SeqsUpTo(BodyTokens, MaxBody)

StylesRel == RelTok(TRUE, 1, "styles", PartName(<<>>, "styles", 0, "xml"))

SettingsRel == RelTok(TRUE, 3, "settings", PartName(<<>>, "settings", 0, "xml"))

\* docx-rs names picture relationships rIdImage<n>: not of the form rId<digits>
PictureRel == RelTok(FALSE, 7, "image", PartName(<<"media">>, "rIdImage", 7, "png"))

RelsTables ==
    {<<CloseRelsTok>>,
     <<PictureRel, SettingsRel, StylesRel, CloseRelsTok>>}

ContentTypeTables ==
    {<<DefaultTok("xml"), CloseTypesTok>>,
     <<DefaultTok("xml"), DefaultTok("emf"), CloseTypesTok>>,
     <<DefaultTok("bin"), DefaultTok("emf"), CloseTypesTok>>}

StylesEntry == Entry(StylesXml, Xml(<<TextTok>>))

RootRelsEntry == Entry(RootRels, Xml(<<CloseRelsTok>>))

Host(body, rels, types) ==
    Archive(<<Entry(ContentTypesXml, Xml(types)), RootRelsEntry, Entry(DocumentXml, Xml(body)),
              Entry(DocumentRels, Xml(rels)), StylesEntry>>)

PlainBody == <<MarkerTok(<<1>>), PEndTok>>

PlainTypes == <<DefaultTok("xml"), CloseTypesTok>>

\* every body with every relationship table, every content-type registry, and
\* a body of two chapters with a paragraph each
ValidHosts ==
    {Host(b, r, PlainTypes) : b \in Bodies, r \in RelsTables}
        \cup {Host(PlainBody, <<CloseRelsTok>>, t) : t \in ContentTypeTables}
        \cup {Host(<<MarkerTok(<<2>>), PEndTok, MarkerTok(<<1>>), PEndTok>>, <<CloseRelsTok>>,
                   PlainTypes)}

\* packages that lack one of the three parts the patch reads
BrokenHosts ==
    {Archive(<<Entry(ContentTypesXml, Xml(<<CloseTypesTok>>)), Entry(DocumentXml, Xml(PlainBody)),
               StylesEntry>>),
     Archive(<<Entry(ContentTypesXml, Xml(<<CloseTypesTok>>)),
               Entry(DocumentRels, Xml(<<CloseRelsTok>>)), StylesEntry>>),
     Archive(<<Entry(DocumentXml, Xml(PlainBody)), Entry(DocumentRels, Xml(<<CloseRelsTok>>)),
               StylesEntry>>)}

Hosts == ValidHosts \cup BrokenHosts \cup {NotAnArchive}

\* "a.zip"
ZipAttachment ==
    [name |-> <<97, 46, 122, 105, 112>>, data |-> <<80, 75>>, file_type |-> "ZIP"]

\* a name with a character outside ASCII and an unclassified extension
OtherAttachment ==
    [name |-> <<CH_zh, CH_dot, CH_a>>, data |-> <<255>>, file_type |-> "Other"]

EmbeddedFile(f, zip_id) ==
    [name |-> f.name, data |-> f.data, file_type |-> f.file_type, zip_id |-> zip_id]

EmbeddedFiles ==
    {EmbeddedFile(ZipAttachment, <<1>>), EmbeddedFile(OtherAttachment, <<1>>),
     EmbeddedFile(OtherAttachment, <<2>>), EmbeddedFile(ZipAttachment, <<1, 0>>)}

FileLists == SeqsUpTo(EmbeddedFiles, MaxFiles)

\* the icon assets hold their placeholder between other records
AssetLayout == "middle"

(***************************************************************************)
(* build_docx_with_embeddings and embed_ole_objects_into_docx              *)
(***************************************************************************)
\* failed: the 1-based list index of the attachment whose container could not
\* be built, 0 for every other outcome
Ok(bytes) == [status |-> "Ok", bytes |-> bytes, failed |-> 0]

Err == [status |-> "Err", bytes |-> NotAnArchive, failed |-> 0]

NoResult == [status |-> "none", bytes |-> NotAnArchive, failed |-> 0]


\* variant of NothingToEmbed that never takes the early return
AlwaysEmbeds(files) == FALSE

\* embedded_files.is_empty()
NothingToEmbed(files) == files = <<>>

\* variant of MatchEmbedResult that hands the error of the patch to the caller
MatchEmbedResultPropagating(embed_result, base) ==
    IF embed_result.status = "Ok" THEN Ok(embed_result.bytes) ELSE Err

\* match embed_ole_objects_into_docx(..) { Ok(result) => Ok(result), Err(e) => Ok(base_bytes) }
MatchEmbedResult(embed_result, base) ==
    IF embed_result.status = "Ok" THEN Ok(embed_result.bytes) ELSE Ok(base)

\* there is no second export
NoInvocation == [pc |-> "none"]

Init ==
    /\ pc = "start"
    /\ embedded_files \in FileLists
    /\ base_bytes = NotAnArchive
    /\ zip_writer = <<>>
    /\ next_rid = 0
    /\ index = 0
    /\ result = <<>>
    /\ groups = {}
    /\ invoked = FALSE
    /\ embed_ret = NoResult
    /\ ret = NoResult
    /\ call = NoCall
    /\ out = NoOut
    /\ other = NoInvocation

\* the locals of embed_ole_objects_into_docx are gone once it has returned
DropLocals ==
    /\ zip_writer' = <<>>
    /\ next_rid' = 0
    /\ index' = 0
    /\ result' = <<>>
    /\ groups' = {}

\* embed_ole_objects_into_docx returns Err through one of its "?"
EmbedFails ==
    /\ embed_ret' = Err
    /\ pc' = "returned"
    /\ DropLocals

\* build_docx_with_embeddings up to the call of embed_ole_objects_into_docx,
\* for a base document that packs to one of hosts
BuildFrom(hosts) ==
    /\ pc = "start"
    /\ \E host \in hosts :
        /\ base_bytes' = host
        /\ IF NothingToEmbed(embedded_files)
           THEN /\ ret' = Ok(host)
                /\ pc' = "done"
                /\ invoked' = invoked
           ELSE /\ ret' = ret
                /\ pc' = "open"
                /\ invoked' = TRUE
    /\ UNCHANGED <<embedded_files, zip_writer, next_rid, index, result, groups, embed_ret,
                   call, out, other>>

Build == BuildFrom(Hosts)

\* xmldocx.pack(..)? fails: the error goes to the caller
PackFails ==
    /\ pc = "start"
    /\ ret' = Err
    /\ pc' = "done"
    /\ UNCHANGED <<embedded_files, base_bytes, zip_writer, next_rid, index, result, groups,
                   invoked, embed_ret, call, out, other>>

\* ZipArchive::new(reader)?
OpenArchive ==
    /\ pc = "open"
    /\ IF base_bytes.isZip
       THEN /\ pc' = "copy"
            /\ UNCHANGED <<zip_writer, next_rid, index, result, groups, embed_ret>>
       ELSE EmbedFails
    /\ UNCHANGED <<embedded_files, base_bytes, invoked, ret, call, out, other>>

\* variant of CopiedParts that copies every part
CopiedPartsAll(parts) == parts

\* the parts of the archive that are not rewritten, in archive order
RECURSIVE CopiedParts(_)
CopiedParts(parts) ==
    IF parts = <<>> THEN <<>>
    ELSE (IF Head(parts).name \in files_to_modify THEN <<>> ELSE <<Head(parts)>>)
            \o CopiedParts(Tail(parts))

\* the loop that copies every part except the three that are rewritten
CopyParts ==
    /\ pc = "copy"
    /\ zip_writer' = CopiedParts(base_bytes.parts)
    /\ pc' = "read"
    /\ UNCHANGED <<embedded_files, base_bytes, next_rid, index, result, groups, invoked,
                   embed_ret, ret, call, out, other>>

\* the three read_file_from_zip_archive(..)? and get_next_relationship_id
ReadParts ==
    /\ pc = "read"
    /\ IF \A n \in files_to_modify : HasPart(base_bytes, n)
       THEN /\ next_rid' = get_next_relationship_id(PartContent(base_bytes, DocumentRels).tokens)
            /\ pc' = "attach"
            /\ UNCHANGED <<zip_writer, index, result, groups, embed_ret>>
       ELSE EmbedFails
    /\ UNCHANGED <<embedded_files, base_bytes, invoked, ret, call, out, other>>

\* one iteration of the loop over embedded_files: the container, then the icon
WriteAttachment ==
    /\ pc = "attach"
    /\ index < Len(embedded_files)
    /\ LET file == embedded_files[index + 1]
           icon_data == get_default_emf_icon(file.file_type, file.name, AssetLayout)
       IN  IF icon_data.ok
           THEN /\ zip_writer' = zip_writer \o
                       <<Entry(OleFilename(index + 1),
                               [kind |-> "ole", streams |-> create_ole_package(file)]),
                         Entry(IconFilename(index + 1),
                               [kind |-> "emf", bytes |-> icon_data.bytes])>>
                /\ index' = index + 1
                /\ pc' = pc
           ELSE /\ pc' = "panicked"
                /\ UNCHANGED <<zip_writer, index>>
    /\ UNCHANGED <<embedded_files, base_bytes, next_rid, result, groups, invoked, embed_ret,
                   ret, call, out, other>>

\* create_ole_package(file)? fails for the file the loop has reached
CreatePackageFails ==
    /\ pc = "attach"
    /\ index < Len(embedded_files)
    /\ embed_ret' = [Err EXCEPT !.failed = index + 1]
    /\ pc' = "returned"
    /\ DropLocals
    /\ UNCHANGED <<embedded_files, base_bytes, invoked, ret, call, out, other>>

\* add_ole_objects_to_document_xml: grouping the files by zip_id
GroupFiles ==
    /\ pc = "attach"
    /\ index = Len(embedded_files)
    /\ result' = PartContent(base_bytes, DocumentXml).tokens
    /\ groups' = GroupKeys(embedded_files)
    /\ pc' = "chapters"
    /\ UNCHANGED <<embedded_files, base_bytes, zip_writer, next_rid, index, invoked,
                   embed_ret, ret, call, out, other>>

\* add_ole_objects_to_document_xml: one chapter, in the order the hash map yields them
PatchChapter ==
    /\ pc = "chapters"
    /\ \E zip_id \in groups :
        /\ result' = InsertChapter(result, embedded_files, zip_id, next_rid)
        /\ groups' = groups \ {zip_id}
    /\ UNCHANGED <<pc, embedded_files, base_bytes, zip_writer, next_rid, index, invoked,
                   embed_ret, ret, call, out, other>>

\* the patched body is written as word/document.xml
WriteDocument ==
    /\ pc = "chapters"
    /\ groups = {}
    /\ zip_writer' = Append(zip_writer, Entry(DocumentXml, Xml(result)))
    /\ pc' = "rels"
    /\ UNCHANGED <<embedded_files, base_bytes, next_rid, index, result, groups, invoked,
                   embed_ret, ret, call, out, other>>

\* add_ole_relationships_to_rels, written as word/_rels/document.xml.rels
WriteRels ==
    /\ pc = "rels"
    /\ zip_writer' = Append(zip_writer,
            Entry(DocumentRels,
                  Xml(add_ole_relationships_to_rels(PartContent(base_bytes, DocumentRels).tokens,
                                                    embedded_files, next_rid))))
    /\ pc' = "types"
    /\ UNCHANGED <<embedded_files, base_bytes, next_rid, index, result, groups, invoked,
                   embed_ret, ret, call, out, other>>

\* add_ole_content_types, written as [Content_Types].xml
WriteContentTypes ==
    /\ pc = "types"
    /\ zip_writer' = Append(zip_writer,
            Entry(ContentTypesXml,
                  Xml(add_ole_content_types(PartContent(base_bytes, ContentTypesXml).tokens))))
    /\ pc' = "finish"
    /\ UNCHANGED <<embedded_files, base_bytes, next_rid, index, result, groups, invoked,
                   embed_ret, ret, call, out, other>>

\* zip_writer.finish()? and Ok(output_bytes)
Finish ==
    /\ pc = "finish"
    /\ embed_ret' = Ok(Archive(zip_writer))
    /\ pc' = "returned"
    /\ DropLocals
    /\ UNCHANGED <<embedded_files, base_bytes, invoked, ret, call, out, other>>

\* copying or writing a part or finishing the archive fails
StepFails ==
    /\ \/ pc \in {"copy", "attach", "rels", "types", "finish"}
       \/ pc = "chapters" /\ groups = {}
    /\ EmbedFails
    /\ UNCHANGED <<embedded_files, base_bytes, invoked, ret, call, out, other>>

\* the match on the result of embed_ole_objects_into_docx
Return ==
    /\ pc = "returned"
    /\ ret' = MatchEmbedResult(embed_ret, base_bytes)
    /\ pc' = "done"
    /\ UNCHANGED <<embedded_files, base_bytes, zip_writer, next_rid, index, result, groups,
                   invoked, embed_ret, call, out, other>>

Next ==
    \/ Build
    \/ PackFails
    \/ OpenArchive
    \/ CopyParts
    \/ ReadParts
    \/ WriteAttachment
    \/ CreatePackageFails
    \/ GroupFiles
    \/ PatchChapter
    \/ WriteDocument
    \/ WriteRels
    \/ WriteContentTypes
    \/ Finish
    \/ StepFails
    \/ Return

Spec == Init /\ [][Next]_vars

(***************************************************************************)
(* Two exports at once.  The functions keep their state in arguments and   *)
(* locals, so a second export is its own copy of the pipeline variables;   *)
(* Switch suspends the running export and resumes the other one.           *)
(***************************************************************************)
\* the locals and arguments of the running export
Invocation ==
    [pc |-> pc, embedded_files |-> embedded_files, base_bytes |-> base_bytes,
     zip_writer |-> zip_writer, next_rid |-> next_rid, index |-> index, result |-> result,
     groups |-> groups, invoked |-> invoked, embed_ret |-> embed_ret, ret |-> ret]

\* variant of Switch with the relationship-id counter kept in one place for both exports
SwitchSharingNextRid ==
    /\ other # NoInvocation
    /\ other' = Invocation
    /\ pc' = other.pc
    /\ embedded_files' = other.embedded_files
    /\ base_bytes' = other.base_bytes
    /\ zip_writer' = other.zip_writer
    /\ next_rid' = next_rid
    /\ index' = other.index
    /\ result' = other.result
    /\ groups' = other.groups
    /\ invoked' = other.invoked
    /\ embed_ret' = other.embed_ret
    /\ ret' = other.ret
    /\ UNCHANGED <<call, out>>

\* the scheduler runs the other export
Switch ==
    /\ other # NoInvocation
    /\ other' = Invocation
    /\ pc' = other.pc
    /\ embedded_files' = other.embedded_files
    /\ base_bytes' = other.base_bytes
    /\ zip_writer' = other.zip_writer
    /\ next_rid' = other.next_rid
    /\ index' = other.index
    /\ result' = other.result
    /\ groups' = other.groups
    /\ invoked' = other.invoked
    /\ embed_ret' = other.embed_ret
    /\ ret' = other.ret
    /\ UNCHANGED <<call, out>>

\* the base documents of the two exports
PairHosts ==
    {Host(PlainBody, <<PictureRel, SettingsRel, StylesRel, CloseRelsTok>>, PlainTypes),
     Host(<<MarkerTok(<<2>>), MarkerTok(<<1>>), PEndTok>>, <<CloseRelsTok>>, PlainTypes)}

BuildPair == BuildFrom(PairHosts)

\* both exports are about to start, each with its own attachment list
InitPair ==
    LET PairFileLists ==
            {<<EmbeddedFile(ZipAttachment, <<1>>)>>,
             <<EmbeddedFile(OtherAttachment, <<2>>), EmbeddedFile(ZipAttachment, <<1>>)>>}
    IN
    /\ pc = "start"
    /\ embedded_files \in PairFileLists
    /\ base_bytes = NotAnArchive
    /\ zip_writer = <<>>
    /\ next_rid = 0
    /\ index = 0
    /\ result = <<>>
    /\ groups = {}
    /\ invoked = FALSE
    /\ embed_ret = NoResult
    /\ ret = NoResult
    /\ call = NoCall
    /\ out = NoOut
    /\ \E files \in PairFileLists :
        other = [pc |-> "start", embedded_files |-> files, base_bytes |-> NotAnArchive,
                 zip_writer |-> <<>>, next_rid |-> 0, index |-> 0, result |-> <<>>,
                 groups |-> {}, invoked |-> FALSE, embed_ret |-> NoResult, ret |-> NoResult]

NextPair ==
    \/ BuildPair
    \/ PackFails
    \/ OpenArchive
    \/ CopyParts
    \/ ReadParts
    \/ WriteAttachment
    \/ CreatePackageFails
    \/ GroupFiles
    \/ PatchChapter
    \/ WriteDocument
    \/ WriteRels
    \/ WriteContentTypes
    \/ Finish
    \/ StepFails
    \/ Return
    \/ Switch

SpecPair == InitPair /\ [][NextPair]_vars

(***************************************************************************)
(* Calls of the pure functions: Init draws the arguments, one action per   *)
(* function applies it.                                                    *)
(***************************************************************************)
PayloadBytes == {0, 65, 255}

Payloads == SeqsUpTo(PayloadBytes, MaxData)

\* placeholder names tried with replace_filename_in_emf
OldNames == {<<CH_a, CH_dot, CH_a>>, <<CH_zh, CH_a, CH_a, CH_dot, CH_a>>, ZipPlaceholder}

EmfBuffer(old_filename, layout) ==
    IF layout = "absent" THEN EmfHeader \o EmfTrailer
    ELSE IF layout = "last" THEN EmfHeader \o Utf16LE(old_filename)
    ELSE EmfHeader \o Utf16LE(old_filename) \o EmfTrailer

\* the names of a call: Names and three longer ones, with an extension of
\* characters outside the BMP or Latin letters next to a CJK character
CallNames ==
    Names \cup {<<CH_emoji, CH_emoji, CH_dot, CH_emoji, CH_emoji>>,
                <<CH_zh, CH_a, CH_a, CH_emoji, CH_emoji>>,
                <<CH_a, CH_zh, CH_a, CH_emoji, CH_emoji>>}

TruncateCalls ==
    {[NoCall EXCEPT !.op = "truncate", !.filename = n, !.max_bytes = b] :
        n \in CallNames, b \in 0..MaxBudget}

ReplaceCalls ==
    {[NoCall EXCEPT !.op = "replace", !.filename = n, !.old_filename = o,
                    !.layout = l, !.emf_data = EmfBuffer(o, l)] :
        n \in CallNames, o \in OldNames, l \in IconLayouts}

IconCalls ==
    {[NoCall EXCEPT !.op = "icon", !.filename = n, !.file_type = t, !.layout = l] :
        n \in CallNames, t \in FileTypes, l \in IconLayouts}

PackageCalls ==
    {[NoCall EXCEPT !.op = "package", !.filename = n, !.data = d] :
        n \in Names, d \in Payloads}

PipeIdle ==
    /\ pc = "idle"
    /\ embedded_files = <<>>
    /\ base_bytes = NotAnArchive
    /\ zip_writer = <<>>
    /\ next_rid = 0
    /\ index = 0
    /\ result = <<>>
    /\ groups = {}
    /\ invoked = FALSE
    /\ embed_ret = NoResult
    /\ ret = NoResult

InitCalls ==
    LET \* content-type registries: declarations, closed by </Types> or cut short
        ContentTypeCalls ==
            {[NoCall EXCEPT !.op = "types", !.content_types_xml = d \o c] :
                d \in SeqsUpTo({DefaultTok("xml"), DefaultTok("bin"), DefaultTok("emf")},
                               MaxTypes),
                c \in {<<>>, <<CloseTypesTok>>}}
        \* the files of the i-th ZIP of a batch; ids are UUIDs, one per ZIP
        Id(i) == <<"z1", "z2", "z3">>[i]
        Filename(i) == <<"a.zip", "b.zip", "a.zip">>[i]
        StoredCopy(i) == <<"zips", Id(i), Filename(i)>>
        SourceFile(i) == <<"import", Filename(i)>>
        VideoFile(i) == <<"extracted", Id(i), "v.mp4">>
        PdfFile(i) == <<"extracted", Id(i), "p.pdf">>
        ZipSummaries(i) ==
            {[id |-> Id(i), filename |-> Filename(i), stored_path |-> s,
              source_path |-> SourceFile(i), include_original_zip |-> inc,
              video_files |-> IF media THEN <<VideoFile(i)>> ELSE <<>>,
              pdf_files |-> IF media THEN <<PdfFile(i)>> ELSE <<>>] :
                s \in {<<>>, <<" ">>, StoredCopy(i)}, inc \in BOOLEAN, media \in BOOLEAN}
        Batches ==
            UNION {{b \in [1..n -> UNION {ZipSummaries(i) : i \in 1..n}] :
                        \A i \in 1..n : b[i] \in ZipSummaries(i)} : n \in 0..MaxZips}
        AllFiles ==
            UNION {{StoredCopy(i), SourceFile(i), VideoFile(i), PdfFile(i)} : i \in 1..MaxZips}
        \* everything can be read, or the stored copies, the imported files or
        \* the extracted videos are gone
        FileSystems ==
            {AllFiles,
             AllFiles \ {StoredCopy(i) : i \in 1..MaxZips},
             AllFiles \ {SourceFile(i) : i \in 1..MaxZips},
             AllFiles \ {VideoFile(i) : i \in 1..MaxZips}}
        BundleCalls ==
            {[NoCall EXCEPT !.op = "bundle", !.batch = b, !.fs = f, !.data = <<80, 75, 3, 4>>] :
                b \in Batches, f \in FileSystems}
        \* files of 1 MiB, 10 MiB and 100 MiB, and of one byte more
        ExportFile(name, len, exists) ==
            [path |-> <<"extracted", "z1", name>>, len |-> len, exists |-> exists]
        Videos ==
            {ExportFile("v.mp4", len, TRUE) :
                len \in {1048576, 1048577, 10485760, 10485761, 104857600, 104857601}}
        ExportCalls ==
            {[NoCall EXCEPT !.op = "export", !.embed_files = e, !.max_file_size_mb = m,
                            !.batch = <<[id |-> "z1", video_files |-> v,
                                         pdf_files |-> <<ExportFile("p.pdf", 1048576, FALSE)>>,
                                         excel_files |-> x,
                                         stored_path |-> ExportFile("a.zip", 1048577, TRUE),
                                         include_original_zip |-> inc]>>] :
                e \in BOOLEAN, m \in {-1, 1, 50}, v \in SeqsUpTo(Videos, MaxFiles),
                x \in {<<>>, <<ExportFile("x.xlsx", 10485761, TRUE)>>}, inc \in BOOLEAN}
        \* the lines of a text: key lines with an empty value, a plain one and
        \* one with a full-width colon and an NBSP; a blank line, a table line
        \* ("1."), text of 5 bytes and text of 2 bytes
        Line(kind, key, v) == [kind |-> kind, key |-> key, v |-> v]
        TextLines ==
            {Line("field", "instruction_no", v) :
                    v \in {<<>>, <<CH_a>>, <<CH_zh, 65306, 160, CH_a>>}}
                \cup {Line("field", "title", v) : v \in {<<>>, <<CH_a>>}}
                \cup {Line("field", "issued_at", <<CH_a>>)}
                \cup {Line("field", "content", v) : v \in {<<>>, <<CH_zh>>}}
                \cup {Line("blank", "", <<>>), Line("table", "", <<49, 46>>),
                      Line("text", "", <<CH_a, 65306, CH_a>>), Line("text", "", <<CH_a, CH_a>>)}
        \* texts of up to MaxLines lines, alone and after a content line
        ExtractCalls ==
            {[NoCall EXCEPT !.op = "extract", !.lines = first \o t] :
                first \in {<<>>} \cup {<<l>> : l \in {c \in TextLines : c.key = "content"}},
                t \in SeqsUpTo(TextLines, MaxLines)}
    IN
    /\ PipeIdle
    /\ call \in TruncateCalls \cup ReplaceCalls \cup IconCalls \cup PackageCalls
                \cup ContentTypeCalls \cup BundleCalls \cup ExportCalls \cup ExtractCalls
    /\ out = NoOut
    /\ other = NoInvocation

CallTruncate ==
    /\ call.op = "truncate" /\ ~out.done
    /\ out' = [NoOut EXCEPT !.done = TRUE,
                            !.name = truncate_filename_to_bytes(call.filename, call.max_bytes),
                            !.best_len =
                                IF /\ Len(Utf16LE(call.filename)) > call.max_bytes
                                   /\ AvailableForStem(call.filename, call.max_bytes) >= 4
                                THEN BestLen(call.filename, call.max_bytes)
                                ELSE -1]
    /\ UNCHANGED <<call, pipeVars, other>>

CallReplace ==
    /\ call.op = "replace" /\ ~out.done
    /\ out' = [NoOut EXCEPT !.done = TRUE,
                            !.icon = replace_filename_in_emf(call.emf_data, call.old_filename,
                                                             call.filename)]
    /\ UNCHANGED <<call, pipeVars, other>>

CallIcon ==
    /\ call.op = "icon" /\ ~out.done
    /\ out' = [NoOut EXCEPT !.done = TRUE,
                            !.icon = get_default_emf_icon(call.file_type, call.filename,
                                                          call.layout)]
    /\ UNCHANGED <<call, pipeVars, other>>

CallPackage ==
    /\ call.op = "package" /\ ~out.done
    /\ out' = [NoOut EXCEPT !.done = TRUE,
                            !.package = create_ole_package([name |-> call.filename,
                                                            data |-> call.data])]
    /\ UNCHANGED <<call, pipeVars, other>>

CallContentTypes ==
    /\ call.op = "types" /\ ~out.done
    /\ out' = [NoOut EXCEPT !.done = TRUE,
                            !.types = add_ole_content_types(call.content_types_xml)]
    /\ UNCHANGED <<call, pipeVars, other>>

\* add_ole_content_types applied to what it returned
CallContentTypesAgain ==
    /\ call.op = "types" /\ out.done /\ ~out.again
    /\ out' = [out EXCEPT !.again = TRUE, !.types_again = add_ole_content_types(out.types)]
    /\ UNCHANGED <<call, pipeVars, other>>

CallBundle ==
    /\ call.op = "bundle" /\ ~out.done
    /\ out' = [NoOut EXCEPT !.done = TRUE,
                            !.bundle = build_bundle_zip_bytes(call.batch, call.data, call.fs)]
    /\ UNCHANGED <<call, pipeVars, other>>

CallExport ==
    /\ call.op = "export" /\ ~out.done
    /\ out' = [NoOut EXCEPT !.done = TRUE,
                            !.export = export_bundle_zip_with_embeddings(
                                           call.batch, call.embed_files, call.max_file_size_mb)]
    /\ UNCHANGED <<call, pipeVars, other>>

\* one iteration of the outer loop of extract_all_fields
CallExtractLine ==
    /\ call.op = "extract" /\ ~out.done
    /\ out.i < Len(call.lines)
    /\ LET line == call.lines[out.i + 1]
           collected == CollectContentLines(call.lines, out.i + 1, <<>>)
           value ==
               IF line.key # "content" THEN normalize_text(line.v)
               ELSE IF collected.content_lines # <<>>
               THEN normalize_instruction_content_with_format(
                        <<line.v>> \o collected.content_lines)
               ELSE IF line.v = <<>> THEN <<>> ELSE <<line.v>>
       IN  out' = IF line.kind # "field" THEN [out EXCEPT !.i = @ + 1]
                  ELSE [out EXCEPT !.fields[line.key] = Append(@, value),
                                   \* i += 1, the inner loop, i -= 1, i += 1
                                   !.i = IF line.key = "content" THEN collected.i - 1 + 1
                                         ELSE @ + 1]
    /\ UNCHANGED <<call, pipeVars, other>>

\* the loop is over: extract_fields_from_docx reads the map (no value of the
\* texts is the table word that get_instruction_content passes over)
CallExtractFields ==
    /\ call.op = "extract" /\ ~out.done
    /\ out.i >= Len(call.lines)
    /\ out' = [out EXCEPT !.done = TRUE,
                          !.word_fields =
                              [instruction_no |-> first_nonempty(out.fields.instruction_no),
                               title |-> first_nonempty(out.fields.title),
                               issued_at |-> first_nonempty(out.fields.issued_at),
                               content |-> first_nonempty(out.fields.content)]]
    /\ UNCHANGED <<call, pipeVars, other>>

NextCalls ==
    \/ CallBundle
    \/ CallExport
    \/ CallExtractLine
    \/ CallExtractFields
    \/ CallTruncate
    \/ CallReplace
    \/ CallIcon
    \/ CallPackage
    \/ CallContentTypes
    \/ CallContentTypesAgain

SpecCalls == InitCalls /\ [][NextCalls]_vars

(***************************************************************************)
(* Properties of an export, checked under Spec                             *)
(***************************************************************************)
\* the export is over and the patch step returned Ok
PatchSucceeded == pc = "done" /\ embed_ret.status = "Ok"

HostBody == PartContent(base_bytes, DocumentXml).tokens

HostRels == PartContent(base_bytes, DocumentRels).tokens

OutBody == PartContent(ret.bytes, DocumentXml).tokens

OutRels == PartContent(ret.bytes, DocumentRels).tokens

\* a relationship target is relative to the directory of word/document.xml
Resolve(target) == [target EXCEPT !.dir = <<"word">> \o target.dir]

\* entries of the output archive whose name the host package does not have
NewPartIndexes ==
    {i \in 1..Len(ret.bytes.parts) : ~HasPart(base_bytes, ret.bytes.parts[i].name)}

\* Relationship entries of the output table that the input table does not have
NewRelIndexes ==
    {i \in 1..Len(OutRels) :
        /\ OutRels[i].kind = "rel"
        /\ \A j \in 1..Len(HostRels) : HostRels[j] # OutRels[i]}

\* the fragments of the output body written for the file at list index idx
FragsOf(idx) ==
    {k \in 1..Len(OutBody) : OutBody[k].kind = "frag" /\ OutBody[k].object_id = idx}

RelsWithId(rid) ==
    {j \in 1..Len(OutRels) :
        OutRels[j].kind = "rel" /\ OutRels[j].numeric /\ OutRels[j].rid = rid}

MarkerPresent(body, zip_id) == FindMarker(body, zip_id) # 0

\* the marker is there and a closing paragraph tag follows it
Insertable(body, zip_id) ==
    MarkerPresent(body, zip_id) /\ FindParagraphEnd(body, FindMarker(body, zip_id)) # 0

\* C1: when a step of embed_ole_objects_into_docx fails, whatever the host
\* and the step, build_docx_with_embeddings returns Ok with exactly the base
\* document bytes; the failure does not reach the caller.
C1_PatchFailureFallsBack ==
    (pc = "done" /\ embed_ret.status = "Err") => ret = Ok(base_bytes)

C1_Witness ==
    /\ pc = "done" /\ embed_ret.status = "Err"
    /\ base_bytes \in ValidHosts
    /\ Len(embedded_files) = 2
    /\ ret = Ok(base_bytes)

\* C2: with an empty attachment list the result is exactly the base document
\* bytes and embed_ole_objects_into_docx is never entered.  (An Err result is
\* the failure of pack, before there are base bytes.)
C2_EmptyListReturnsBase ==
    (embedded_files = <<>>)
        => /\ ~invoked
           /\ (pc = "done" /\ ret.status # "Err") => ret = Ok(base_bytes)

C2_Witness ==
    /\ embedded_files = <<>> /\ pc = "done"
    /\ base_bytes \in ValidHosts
    /\ ret = Ok(base_bytes)
    /\ ~invoked

\* C3: a successful patch of N >= 1 attachments whose chapter markers are all
\* in the body adds exactly 2N parts (oleObject1..N.bin and image1..N.emf, each
\* once) and exactly 2N Relationship entries.
C3_TwoPartsAndTwoRelsPerFile ==
    (/\ PatchSucceeded
     /\ Len(embedded_files) >= 1
     /\ \A i \in 1..Len(embedded_files) : MarkerPresent(HostBody, embedded_files[i].zip_id))
        => /\ Cardinality(NewPartIndexes) = 2 * Len(embedded_files)
           /\ {ret.bytes.parts[i].name : i \in NewPartIndexes}
                = {OleFilename(n) : n \in 1..Len(embedded_files)}
                    \cup {IconFilename(n) : n \in 1..Len(embedded_files)}
           /\ Cardinality(NewRelIndexes) = 2 * Len(embedded_files)

C3_Witness ==
    /\ PatchSucceeded
    /\ Len(embedded_files) = 2
    /\ \A i \in 1..2 : MarkerPresent(HostBody, embedded_files[i].zip_id)
    /\ Cardinality(NewPartIndexes) = 4
    /\ Cardinality(NewRelIndexes) = 4

C5_FragmentRelsAndPartsAgree ==
    PatchSucceeded
        => \A i \in 0..(Len(embedded_files) - 1) :
            LET file == embedded_files[i + 1]
                base == get_next_relationship_id(HostRels)
            IN  /\ Cardinality(FragsOf(i)) = IF Insertable(HostBody, file.zip_id) THEN 1 ELSE 0
                /\ \A k \in FragsOf(i) :
                    /\ OutBody[k].ole_rid = base + 2 * i
                    /\ OutBody[k].img_rid = base + 2 * i + 1
                /\ \E j \in RelsWithId(base + 2 * i) :
                    /\ RelsWithId(base + 2 * i) = {j}
                    /\ OutRels[j].target = OleTarget(i + 1)
                    /\ HasPart(ret.bytes, Resolve(OutRels[j].target))
                    /\ PartContent(ret.bytes, Resolve(OutRels[j].target))
                         = [kind |-> "ole", streams |-> create_ole_package(file)]
                /\ \E j \in RelsWithId(base + 2 * i + 1) :
                    /\ RelsWithId(base + 2 * i + 1) = {j}
                    /\ OutRels[j].target = ImgTarget(i + 1)
                    /\ HasPart(ret.bytes, Resolve(OutRels[j].target))
                    /\ PartContent(ret.bytes, Resolve(OutRels[j].target))
                         = [kind |-> "emf",
                            bytes |-> get_default_emf_icon(file.file_type, file.name,
                                                           AssetLayout).bytes]

C5_Witness ==
    /\ PatchSucceeded
    /\ Len(embedded_files) = 2
    /\ embedded_files[1].zip_id = <<2>>
    /\ embedded_files[2].zip_id = <<1>>
    /\ FindMarker(HostBody, <<1>>) < FindMarker(HostBody, <<2>>)
    /\ Cardinality(FragsOf(0)) = 1
    /\ Cardinality(FragsOf(1)) = 1

\* C11: when create_ole_package fails for one attachment of a batch, every
\* other attachment of the batch is still embedded: the returned document
\* holds its container.
C11_OnlyFailedAttachmentDropped ==
    (pc = "done" /\ embed_ret.failed > 0)
        => /\ ret.status = "Ok"
           /\ \A i \in 1..Len(embedded_files) :
                i # embed_ret.failed
                    => \E k \in 1..Len(ret.bytes.parts) :
                        /\ ret.bytes.parts[k].content.kind = "ole"
                        /\ ret.bytes.parts[k].content.streams
                             = create_ole_package(embedded_files[i])

\* number of entries of that name in an archive
CountPart(archive, name) ==
    Cardinality({k \in 1..Len(archive.parts) : archive.parts[k].name = name})

\* C12: after a successful patch every part of the host other than the three
\* rewritten ones is in the output exactly once, under its name and with its
\* content, and each of the three rewritten names is there exactly once.
C12_OtherPartsCopiedOnce ==
    PatchSucceeded
        => /\ \A i \in 1..Len(base_bytes.parts) :
                LET part == base_bytes.parts[i]
                IN  part.name \notin {DocumentXml, DocumentRels, ContentTypesXml}
                        => /\ CountPart(ret.bytes, part.name) = 1
                           /\ \E k \in 1..Len(ret.bytes.parts) : ret.bytes.parts[k] = part
           /\ \A name \in {DocumentXml, DocumentRels, ContentTypesXml} :
                CountPart(ret.bytes, name) = 1

C12_Witness ==
    /\ PatchSucceeded
    /\ base_bytes \in ValidHosts
    /\ Len(embedded_files) = 2
    /\ CountPart(ret.bytes, StylesXml) = 1 /\ CountPart(ret.bytes, RootRels) = 1
    /\ CountPart(ret.bytes, DocumentXml) = 1
    /\ Len(ret.bytes.parts) = 9

\* first position of a token of s that satisfies Test, from position from on; 0 for none
FirstFrom(s, from, Test(_)) ==
    LET hits == {i \in from..Len(s) : Test(s[i])}
    IN  IF hits = {} THEN 0 ELSE CHOOSE i \in hits : \A j \in hits : i <= j

\* the output body without line breaks and without the fragments of other chapters
ChapterView(zip_id) ==
    SelectSeq(OutBody, LAMBDA t :
        /\ t.kind # "nl"
        /\ t.kind = "frag" => embedded_files[t.object_id + 1].zip_id = zip_id)

\* C14: for every chapter whose marker text occurs in the body with a
\* closing paragraph tag after it, the patched body is the input body with
\* that chapter's fragments, one per attachment in list order, right after
\* the first </w:p> that follows the first occurrence of the marker text
\* (the fragments of the other chapters set aside).
C14_FragmentsAfterMarkerParagraph ==
    PatchSucceeded
        => \A zip_id \in GroupKeys(embedded_files) :
            LET m == FirstFrom(HostBody, 1, LAMBDA t : MatchesMarker(t, zip_id))
                e == IF m = 0 THEN 0 ELSE FirstFrom(HostBody, m, LAMBDA t : t = PEndTok)
                idxs == GroupIndexes(embedded_files, zip_id, 1)
            IN  e # 0
                    => ChapterView(zip_id)
                        = SubSeq(HostBody, 1, e)
                            \o [k \in 1..Len(idxs) |->
                                    FragTok(idxs[k], get_next_relationship_id(HostRels))]
                            \o SubSeq(HostBody, e + 1, Len(HostBody))

\* two chapters, the marker of the second before that of the first, and a
\* chapter of two attachments
C14_Witness ==
    /\ PatchSucceeded
    /\ HostBody = <<MarkerTok(<<2>>), MarkerTok(<<1>>), PEndTok>>
    /\ Len(embedded_files) = 2
    /\ embedded_files[1].zip_id = <<1>> /\ embedded_files[2].zip_id = <<2>>
    /\ Len(SelectSeq(OutBody, LAMBDA t : t.kind = "frag")) = 2
    /\ OutBody[3] = PEndTok

(***************************************************************************)
(* Properties of the pure functions, checked under SpecCalls               *)
(***************************************************************************)
RECURSIVE AfterZero(_)
\* what follows the first zero byte of s
AfterZero(s) ==
    IF s = <<>> THEN <<>>
    ELSE IF Head(s) = 0 THEN Tail(s)
    ELSE AfterZero(Tail(s))

\* A reader of the native-payload stream: length, marker, two zero-terminated
\* strings, 4-byte separator, length-prefixed path, length, data.
DecodeNativePayload(stream) ==
    LET afterStrings == AfterZero(AfterZero(Drop(stream, 6)))
        atPathLen == Drop(afterStrings, 4)
        atDataLen == Drop(atPathLen, 4 + FromLE32(Take(atPathLen, 4) \o <<0, 0, 0, 0>>))
    IN  Take(Drop(atDataLen, 4), FromLE32(Take(atDataLen, 4) \o <<0, 0, 0, 0>>))

\* C6: decoding the native-payload stream written by create_ole_package with
\* the inverse of the documented layout gives back exactly the input payload.
C6_PayloadRoundTrip ==
    (out.done /\ call.op = "package")
        => DecodeNativePayload(out.package.Ole10Native) = call.data

C6_Witness ==
    /\ out.done /\ call.op = "package"
    /\ call.data = <<0, 255>>
    /\ call.filename = <<CH_zh, CH_emoji, CH_dot, CH_a>>
    /\ DecodeNativePayload(out.package.Ole10Native) = <<0, 255>>

\* the template a call of the icon patcher started from, and its placeholder
CallTemplate ==
    IF call.op = "icon" THEN IconTemplate(call.file_type, call.layout) ELSE call.emf_data

CallPlaceholder ==
    IF call.op = "icon" THEN OldFilename(call.file_type) ELSE call.old_filename

IconCallDone == out.done /\ call.op \in {"icon", "replace"}

\* C7: the icon returned by get_default_emf_icon / replace_filename_in_emf is
\* as long as the template it started from, whether the name fits or not and
\* whether the placeholder is found or not.
C7_IconLengthKept ==
    (IconCallDone /\ out.icon.ok) => Len(out.icon.bytes) = Len(CallTemplate)

C7_Witness ==
    /\ out.done /\ call.op = "icon" /\ call.file_type = "ZIP" /\ call.layout = "middle"
    /\ Len(Utf16LE(call.filename)) > Len(Utf16LE(ZipPlaceholder))
    /\ out.icon.ok
    /\ out.icon.bytes # CallTemplate
    /\ Len(out.icon.bytes) = Len(CallTemplate)

\* C8: when the UTF-16LE encoding of the display name is no longer than that
\* of the placeholder and the placeholder is found at offset p, the patched
\* icon holds the name's encoding at p, then zero bytes up to the end of the
\* placeholder.
C8_FittingNameWritten ==
    LET p == WindowsPosition(CallTemplate, Utf16LE(CallPlaceholder))
        enc == Utf16LE(call.filename)
        budget == Len(Utf16LE(CallPlaceholder))
    IN  (IconCallDone /\ budget > 0 /\ Len(enc) <= budget /\ p >= 0)
            => /\ out.icon.ok
               /\ SubSeq(out.icon.bytes, p + 1, p + Len(enc)) = enc
               /\ \A k \in (p + Len(enc) + 1)..(p + budget) : out.icon.bytes[k] = 0

C8_Witness ==
    /\ out.done /\ call.op = "replace" /\ call.layout = "middle"
    /\ call.old_filename = <<CH_zh, CH_a, CH_a, CH_dot, CH_a>>
    /\ call.filename = <<CH_emoji, CH_a>>
    /\ out.icon.ok
    /\ SubSeq(out.icon.bytes, Len(EmfHeader) + 1, Len(EmfHeader) + 10)
         = Utf16LE(<<CH_emoji, CH_a>>) \o <<0, 0, 0, 0>>

\* C9: the UTF-16LE encoding of truncate_filename_to_bytes(filename, max_bytes)
\* is at most max_bytes bytes long.
C9_TruncatedFitsBudget ==
    (out.done /\ call.op = "truncate") => Len(Utf16LE(out.name)) <= call.max_bytes

\* C10: when the marker text of a chapter is absent from the body, the
\* attachments of that chapter are left out of the output: no fragment, no
\* binary part and no relationship entry for them.
C10_AbsentMarkerOmitsAttachment ==
    PatchSucceeded
        => \A i \in 1..Len(embedded_files) :
            ~MarkerPresent(HostBody, embedded_files[i].zip_id)
                => /\ FragsOf(i - 1) = {}
                   /\ ~HasPart(ret.bytes, OleFilename(i))
                   /\ ~HasPart(ret.bytes, IconFilename(i))
                   /\ \A j \in 1..Len(OutRels) :
                        OutRels[j].kind = "rel"
                            => OutRels[j].target \notin {OleTarget(i), ImgTarget(i)}

\* C13: get_default_emf_icon always returns a buffer (it does not abort),
\* writes nothing outside the bytes of the placeholder, and returns the
\* template unchanged when the placeholder is not found in it.
C13_IconPatchNeverFails ==
    LET p == WindowsPosition(CallTemplate, Utf16LE(CallPlaceholder))
        budget == Len(Utf16LE(CallPlaceholder))
    IN  (out.done /\ call.op = "icon")
            => /\ out.icon.ok
               /\ Len(out.icon.bytes) = Len(CallTemplate)
               /\ \A k \in 1..Len(CallTemplate) :
                    (p < 0 \/ k <= p \/ k > p + budget) => out.icon.bytes[k] = CallTemplate[k]

\* number of Default declarations of an extension in a registry
CountDefault(content_types_xml, ext) ==
    Cardinality({i \in 1..Len(content_types_xml) : content_types_xml[i] = DefaultTok(ext)})

TypesCallDone == out.done /\ call.op = "types"

HasCloseTypes(content_types_xml) ==
    \E i \in 1..Len(content_types_xml) : content_types_xml[i] = CloseTypesTok

\* C15: for a registry with a closing </Types> tag the output of
\* add_ole_content_types declares bin and emf, holds one new declaration for
\* each of the two that the input did not declare and nothing else new, and
\* a second application returns its input.
C15_ContentTypesDeclaredOnce ==
    (TypesCallDone /\ HasCloseTypes(call.content_types_xml))
        => /\ \A ext \in {"bin", "emf"} :
                CountDefault(out.types, ext)
                    = IF CountDefault(call.content_types_xml, ext) > 0
                      THEN CountDefault(call.content_types_xml, ext) ELSE 1
           /\ CountDefault(out.types, "xml") = CountDefault(call.content_types_xml, "xml")
           /\ SelectSeq(out.types, LAMBDA t : t = CloseTypesTok) = <<CloseTypesTok>>
           /\ out.again => out.types_again = out.types

C15_Witness ==
    /\ TypesCallDone /\ out.again
    /\ call.content_types_xml = <<DefaultTok("xml"), DefaultTok("emf"), CloseTypesTok>>
    /\ out.types = <<DefaultTok("xml"), DefaultTok("emf"), DefaultTok("bin"), CloseTypesTok>>
    /\ out.types_again = out.types

TruncateCallDone == out.done /\ call.op = "truncate"

\* C18: a filename that does not fit the budget comes back as a prefix of its
\* stem, then "..", then "." and the extension (nothing for a name without one).
C18_ExtensionKept ==
    (TruncateCallDone /\ Len(Utf16LE(call.filename)) > call.max_bytes)
        => \E k \in 0..Len(PathFileStem(call.filename)) :
            out.name = Take(PathFileStem(call.filename), k) \o Ellipsis
                          \o ExtWithDot(call.filename)

\* what the budget leaves for the stem: max_bytes less the extension and the ellipsis
RemainingBudget ==
    call.max_bytes - Len(Utf16LE(ExtWithDot(call.filename))) - Len(Utf16LE(Ellipsis))

StemFits(k) == Len(Utf16LE(Take(PathFileStem(call.filename), k))) <= RemainingBudget

\* C19: the binary search ends, and best_len is the largest k in 0..len(stem)
\* for which the UTF-16LE encoding of the first k characters of the stem is
\* no longer than the remaining budget.
C19_BestLenIsLargestFit ==
    (TruncateCallDone /\ out.best_len >= 0)
        => /\ out.best_len \in 0..Len(PathFileStem(call.filename))
           /\ StemFits(out.best_len)
           /\ \A k \in 0..Len(PathFileStem(call.filename)) : StemFits(k) => k <= out.best_len

C19_Witness ==
    /\ TruncateCallDone
    /\ call.filename = <<CH_emoji, CH_emoji, CH_emoji, CH_emoji>>
    /\ call.max_bytes = 8
    /\ out.best_len = 1

\* number of characters of the stem kept in the result of a truncation
KeptLen == Len(out.name) - Len(Ellipsis) - Len(ExtWithDot(call.filename))

\* the stem has a separator or a change of script right after its first k characters
BoundaryAfter(stem, k) ==
    \/ IsSeparator(stem[k + 1])
    \/ IsCjk(stem[k + 1])
    \/ k > 0 /\ IsCjk(stem[k]) /\ is_ascii_alphabetic(stem[k + 1])

\* C20: the kept prefix is the naive prefix of length best_len, or a shorter
\* one that ends at a separator or script boundary and is at least half as
\* long as best_len.
C20_CutMovesAtMostHalfway ==
    (TruncateCallDone /\ out.best_len >= 0)
        => /\ KeptLen \in 0..out.best_len
           /\ Take(out.name, KeptLen) = Take(PathFileStem(call.filename), KeptLen)
           /\ KeptLen < out.best_len
                => /\ 2 * KeptLen >= out.best_len
                   /\ BoundaryAfter(PathFileStem(call.filename), KeptLen)

C20_Witness ==
    /\ TruncateCallDone
    /\ call.filename = <<CH_a, CH_zh, CH_a, CH_emoji, CH_emoji>>
    /\ call.max_bytes = 10
    /\ out.best_len = 3
    /\ out.name = <<CH_a, CH_zh>> \o Ellipsis

BundleCallDone == out.done /\ call.op = "bundle"

\* the bundle holds an entry of that name and content
BundleHolds(name, content) ==
    \E k \in 1..Len(out.bundle.entries) :
        out.bundle.entries[k].name = name /\ out.bundle.entries[k].content = content

\* C16: the archive built by build_bundle_zip_bytes holds the summary
\* document, the directory attachments/, a directory attachments/<id>/ for
\* every ZIP of the batch and, for every ZIP with include_original_zip, the
\* bytes of the original archive at attachments/<id>/<filename>.
C16_BundleLayout ==
    (BundleCallDone /\ out.bundle.ok)
        => /\ BundleHolds(<<"summary.docx">>, [kind |-> "file", bytes |-> call.data])
           /\ BundleHolds(<<"attachments", "">>, [kind |-> "dir", bytes |-> <<>>])
           /\ \A i \in 1..Len(call.batch) :
                LET z == call.batch[i]
                    original == IF z.stored_path \in {<<>>, <<" ">>} THEN z.source_path
                                ELSE z.stored_path
                IN  /\ BundleHolds(<<"attachments", z.id, "">>, [kind |-> "dir", bytes |-> <<>>])
                    /\ z.include_original_zip
                        => BundleHolds(<<"attachments", z.id, z.filename>>,
                                       [kind |-> "file", bytes |-> original])

C16_Witness ==
    /\ BundleCallDone /\ out.bundle.ok
    /\ Len(call.batch) = 2
    /\ call.batch[1].include_original_zip /\ call.batch[1].stored_path = <<" ">>
    /\ ~call.batch[2].include_original_zip
    /\ BundleHolds(<<"attachments", "z1", "a.zip">>, [kind |-> "file", bytes |-> <<"import", "a.zip">>])
    /\ BundleHolds(<<"attachments", "z2", "">>, [kind |-> "dir", bytes |-> <<>>])

(***************************************************************************)
(* Properties of two exports at once, checked under SpecPair               *)
(***************************************************************************)
\* the bodies the chapters of a list can leave, whatever the order of the chapters
RECURSIVE BodiesAlone(_, _, _, _)
BodiesAlone(body, files, zip_ids, start_rid) ==
    IF zip_ids = {} THEN {body}
    ELSE UNION {BodiesAlone(InsertChapter(body, files, z, start_rid), files,
                            zip_ids \ {z}, start_rid) : z \in zip_ids}

\* the archives a patch of host with files can produce
ArchivesAlone(host, files) ==
    LET rels == PartContent(host, DocumentRels).tokens
        start_rid == get_next_relationship_id(rels)
        attachments ==
            Flatten([i \in 1..Len(files) |->
                <<Entry(OleFilename(i), [kind |-> "ole", streams |-> create_ole_package(files[i])]),
                  Entry(IconFilename(i),
                        [kind |-> "emf",
                         bytes |-> get_default_emf_icon(files[i].file_type, files[i].name,
                                                        AssetLayout).bytes])>>])
    IN  {Archive(CopiedParts(host.parts) \o attachments \o
                 <<Entry(DocumentXml, Xml(b)),
                   Entry(DocumentRels, Xml(add_ole_relationships_to_rels(rels, files, start_rid))),
                   Entry(ContentTypesXml,
                         Xml(add_ole_content_types(PartContent(host, ContentTypesXml).tokens)))>>) :
            b \in BodiesAlone(PartContent(host, DocumentXml).tokens, files, GroupKeys(files),
                              start_rid)}

\* what build_docx_with_embeddings can return for these inputs when it runs
\* alone: the patched document, or the base document when a step fails
ResultsAlone(host, files) ==
    {Ok(host)} \cup {Ok(a) : a \in IF files = <<>> THEN {} ELSE ArchivesAlone(host, files)}

ReturnedAsAlone(inv) ==
    (inv.pc = "done" /\ inv.ret.status = "Ok")
        => inv.ret.bytes \in {r.bytes : r \in ResultsAlone(inv.base_bytes, inv.embedded_files)}

\* C17: two exports that run at the same time on their own inputs, their
\* steps interleaved in any way, each return bytes that the export returns
\* for those inputs when it runs alone.
C17_ConcurrentExportsIndependent ==
    other # NoInvocation => ReturnedAsAlone(Invocation) /\ ReturnedAsAlone(other)

C17_Witness ==
    /\ other # NoInvocation
    /\ pc = "done" /\ other.pc = "done"
    /\ embed_ret.status = "Ok" /\ other.embed_ret.status = "Ok"
    /\ Len(embedded_files) = 2 /\ Len(other.embedded_files) = 1
    /\ base_bytes # other.base_bytes
    /\ ret.bytes \in ArchivesAlone(base_bytes, embedded_files)
    /\ other.ret.bytes \in ArchivesAlone(other.base_bytes, other.embedded_files)

\* C21: replace_filename_in_emf changes nothing outside the placeholder: a
\* buffer it returns has the length of the template, and every byte before
\* the first occurrence of the placeholder and every byte at or after the
\* end of that occurrence is the byte of the template.
C21_OnlyPlaceholderBytesChange ==
    LET old_utf16 == Utf16LE(call.old_filename)
        p == WindowsPosition(call.emf_data, old_utf16)
    IN  (out.done /\ call.op = "replace" /\ out.icon.ok /\ p >= 0)
            => /\ Len(out.icon.bytes) = Len(call.emf_data)
               /\ \A k \in 1..Len(call.emf_data) :
                    (k <= p \/ k > p + Len(old_utf16))
                        => out.icon.bytes[k] = call.emf_data[k]

C23_ObjectDescriptorConstant ==
    LET class_id == LE32(196620) \o LE16(0) \o LE16(0) \o <<192, 0, 0, 0, 0, 0, 0, 70>>
    IN  (out.done /\ call.op = "package")
            => out.package.CompObj =
                  LE16(1) \o LE16(65534) \o LE32(2563) \o <<255, 255, 255, 255>>
                      \o class_id
                      \o LE32(7) \o <<80, 97, 99, 107, 97, 103, 101>> \o <<0>>
                      \o LE32(0) \o LE32(0)

(***************************************************************************)
(* Chapters against each other, checked under Spec                         *)
(***************************************************************************)
\* C24: a chapter whose marker is absent from the body does not disturb the
\* other chapters: every other chapter whose marker is present (with a
\* closing paragraph tag after it) has its fragments at the same place and
\* with the same content as in the patch of the same body to which a
\* paragraph with the missing marker is added.
C24_AbsentMarkerLeavesOthers ==
    PatchSucceeded
        => \A missing \in GroupKeys(embedded_files) :
            LET with_marker == HostBody \o <<MarkerTok(missing), PEndTok>>
                View(body, zip_id) ==
                    SelectSeq(body, LAMBDA t :
                        /\ t.kind # "nl"
                        /\ t.kind = "frag" => embedded_files[t.object_id + 1].zip_id = zip_id)
            IN  ~MarkerPresent(HostBody, missing)
                    => \A zip_id \in GroupKeys(embedded_files) \ {missing} :
                        Insertable(HostBody, zip_id)
                            => \A b \in BodiesAlone(with_marker, embedded_files,
                                                    GroupKeys(embedded_files),
                                                    get_next_relationship_id(HostRels)) :
                                View(b, zip_id)
                                    = View(OutBody, zip_id) \o <<MarkerTok(missing), PEndTok>>

C24_Witness ==
    /\ PatchSucceeded
    /\ Len(embedded_files) = 2
    /\ embedded_files[1].zip_id = <<2>> /\ embedded_files[2].zip_id = <<1>>
    /\ ~MarkerPresent(HostBody, <<2>>)
    /\ Insertable(HostBody, <<1>>)
    /\ Cardinality(FragsOf(1)) = 1
    /\ Cardinality(FragsOf(0)) = 0

\* C25: the tags of the objects of one patched body are pairwise distinct
\* across all attachments, whatever their chapters: the shape id
\* _x0000_i<1025+index>, the ObjectID _146807572<index> and the paragraph id
\* (0x10000000+index as eight hex digits); and the ShapeID of each OLEObject
\* is the id of the shape of its own fragment.
C25_ObjectTagsDistinct ==
    LET frags == {k \in 1..Len(OutBody) : OutBody[k].kind = "frag"}
        \* "_x0000_i{}", "_146807572{}" and "{:08X}"
        ShapeTag(n) == <<95, 120, 48, 48, 48, 48, 95, 105>> \o DecimalDigits(n)
        ObjectTag(n) == <<95, 49, 52, 54, 56, 48, 55, 53, 55, 50>> \o DecimalDigits(n)
        HexDigit(d) == IF d < 10 THEN 48 + d ELSE 55 + d
        ParaTag(n) == [i \in 1..8 |-> HexDigit((n \div (16 ^ (8 - i))) % 16)]
    IN  PatchSucceeded
            => /\ \A j, k \in frags :
                    j # k => /\ ShapeTag(OutBody[j].shape_id) # ShapeTag(OutBody[k].shape_id)
                             /\ ObjectTag(OutBody[j].object_id) # ObjectTag(OutBody[k].object_id)
                             /\ ParaTag(OutBody[j].paraId) # ParaTag(OutBody[k].paraId)
               /\ \A k \in frags :
                    ShapeTag(OutBody[k].ole_shape_id) = ShapeTag(OutBody[k].shape_id)

\* two attachments of two chapters, both inserted
C25_Witness ==
    /\ PatchSucceeded
    /\ Len(embedded_files) = 2
    /\ embedded_files[1].zip_id # embedded_files[2].zip_id
    /\ \E j, k \in 1..Len(OutBody) :
        /\ OutBody[j].kind = "frag" /\ OutBody[k].kind = "frag"
        /\ OutBody[j].shape_id = 1025 /\ OutBody[k].shape_id = 1026
        /\ OutBody[j].paraId = 268435456 /\ OutBody[k].paraId = 268435457

\* C28: when no chapter's marker text is part of another chapter's marker
\* text, and the first occurrences of the markers are in paragraphs of their
\* own, the patched body does not depend on the order in which the chapters
\* are processed: every order gives the body that the patch returned.
C28_ChapterOrderIrrelevant ==
    LET keys == GroupKeys(embedded_files)
        MarkerOf(zip_id) == FirstFrom(HostBody, 1, LAMBDA t : MatchesMarker(t, zip_id))
        ParagraphOf(zip_id) ==
            IF MarkerOf(zip_id) = 0 THEN 0
            ELSE FirstFrom(HostBody, MarkerOf(zip_id), LAMBDA t : t = PEndTok)
        apart == \A y, z \in keys :
                    y # z => /\ ~IsPrefix(y, z)
                             /\ (ParagraphOf(y) # 0 /\ ParagraphOf(z) # 0)
                                    => ParagraphOf(y) # ParagraphOf(z)
    IN  (PatchSucceeded /\ apart)
            => BodiesAlone(HostBody, embedded_files, keys,
                           get_next_relationship_id(HostRels)) = {OutBody}

\* two chapters, both inserted, each after its own paragraph
C28_Witness ==
    /\ PatchSucceeded
    /\ HostBody = <<MarkerTok(<<2>>), PEndTok, MarkerTok(<<1>>), PEndTok>>
    /\ Len(embedded_files) = 2
    /\ embedded_files[1].zip_id = <<1>> /\ embedded_files[2].zip_id = <<2>>
    /\ OutBody[4].kind = "frag" /\ OutBody[4].object_id = 1
    /\ OutBody[9].kind = "frag" /\ OutBody[9].object_id = 0

\* C29: after a successful patch, each relationship id that a fragment of
\* the body refers to (the r:id of its imagedata and of its OLEObject) has
\* exactly one entry in the relationship table of the output, and the target
\* of that entry is a part of the output archive.
C29_FragmentRidsResolve ==
    PatchSucceeded
        => \A k \in 1..Len(OutBody) :
            OutBody[k].kind = "frag"
                => \A rid \in {OutBody[k].img_rid, OutBody[k].ole_rid} :
                    /\ Cardinality(RelsWithId(rid)) = 1
                    /\ \A j \in RelsWithId(rid) :
                        CountPart(ret.bytes, Resolve(OutRels[j].target)) >= 1

\* the second attachment alone is inserted, into a host whose table has the ids 1, 3 and rIdImage7
C29_Witness ==
    /\ PatchSucceeded
    /\ HostRels = <<PictureRel, SettingsRel, StylesRel, CloseRelsTok>>
    /\ Len(embedded_files) = 2
    /\ Cardinality(FragsOf(0)) = 0
    /\ \E k \in FragsOf(1) :
        /\ OutBody[k].ole_rid = 6 /\ OutBody[k].img_rid = 7
        /\ Cardinality(RelsWithId(6)) = 1 /\ Cardinality(RelsWithId(7)) = 1
        /\ CountPart(ret.bytes, OleFilename(2)) = 1
        /\ CountPart(ret.bytes, IconFilename(2)) = 1

RECURSIVE WithoutFragments(_)
\* the body without the inserted runs (line break, fragment, line break)
WithoutFragments(body) ==
    IF body = <<>> THEN <<>>
    ELSE IF Len(body) >= 3 /\ body[1] = NewlineTok /\ body[2].kind = "frag"
                           /\ body[3] = NewlineTok
         THEN WithoutFragments(Drop(body, 3))
    ELSE <<Head(body)>> \o WithoutFragments(Tail(body))

\* C30: add_ole_objects_to_document_xml only inserts: the patched body
\* without the inserted fragments is the input body, token for token, and
\* when no chapter has its marker in the body with a closing paragraph tag
\* after it, the patched body is the input body.
C30_PatchOnlyInserts ==
    PatchSucceeded
        => /\ WithoutFragments(OutBody) = HostBody
           /\ (\A zip_id \in GroupKeys(embedded_files) : ~Insertable(HostBody, zip_id))
                => OutBody = HostBody

\* two fragments went into the middle of the body and after its end
C30_Witness ==
    /\ PatchSucceeded
    /\ HostBody = <<MarkerTok(<<2>>), PEndTok, MarkerTok(<<1>>), PEndTok>>
    /\ Len(OutBody) = 10
    /\ OutBody[4].kind = "frag" /\ OutBody[9].kind = "frag"
    /\ WithoutFragments(OutBody) = HostBody

\* C26: when the export runs with embed_files = true and max_file_size_mb = M,
\* config.max_file_size is M MiB (10 MiB when M is not given) and no file
\* longer than that is in the list of embedded attachments.
C26_ConfigBoundsEmbeddedSize ==
    LET limit == IF call.max_file_size_mb >= 0 THEN call.max_file_size_mb * 1024 * 1024
                 ELSE 10 * 1024 * 1024
    IN  (out.done /\ call.op = "export" /\ call.embed_files)
            => /\ out.export.config.max_file_size = limit
               /\ \A k \in 1..Len(out.export.embedded_files) :
                    out.export.embedded_files[k].len <= limit

(***************************************************************************)
(* Field extraction, checked under SpecCalls                               *)
(***************************************************************************)
\* the positions of the lines of the call that carry the key, in text order
KeyLines(key) ==
    SelectSeq([p \in 1..Len(call.lines) |-> p],
              LAMBDA p : call.lines[p].kind = "field" /\ call.lines[p].key = key)

\* what the key line at position p of the text is to contribute: its own
\* value, and for the content key also the lines of more than 3 bytes that
\* lie before the next field line or table line
ValueOfLine(p) ==
    LET lines == call.lines
        stops == {q \in (p + 1)..Len(lines) : lines[q].kind \in {"field", "table"}}
        stop == IF stops = {} THEN Len(lines) + 1 ELSE CHOOSE q \in stops : \A r \in stops : q <= r
        between == SubSeq(lines, p + 1, stop - 1)
        Utf8Bytes(v) ==
            LET sum[k \in 0..Len(v)] ==
                    IF k = 0 THEN 0
                    ELSE sum[k - 1] + (IF v[k] < 128 THEN 1 ELSE IF v[k] < 2048 THEN 2
                                       ELSE IF v[k] < 65536 THEN 3 ELSE 4)
            IN  sum[Len(v)]
        kept == SelectSeq(between, LAMBDA l : l.kind = "text" /\ Utf8Bytes(l.v) > 3)
        own == IF lines[p].v = <<>> THEN <<>> ELSE <<lines[p].v>>
    IN  IF lines[p].key # "content" THEN normalize_text(lines[p].v)
        ELSE IF kept = <<>> THEN own
        ELSE [k \in 1..Len(own) + Len(kept) |->
                normalize_text(IF k <= Len(own) THEN own[k] ELSE kept[k - Len(own)].v)]

\* what holds of the map while the loop runs and of the fields at its end
ExtractionHolds ==
    call.op = "extract"
        => /\ out.i <= Len(call.lines)
           /\ out.done
                => /\ \A key \in DOMAIN out.fields :
                        /\ Len(out.fields[key]) = Len(KeyLines(key))
                        /\ \A k \in 1..Len(KeyLines(key)) :
                            out.fields[key][k] = ValueOfLine(KeyLines(key)[k])
                   /\ \A key \in {"instruction_no", "title", "issued_at"} :
                        LET values == out.fields[key]
                        IN  IF \A k \in 1..Len(values) : values[k] = <<>>
                            THEN out.word_fields[key] = <<>>
                            ELSE \E k \in 1..Len(values) :
                                    /\ values[k] # <<>>
                                    /\ \A j \in 1..(k - 1) : values[j] = <<>>
                                    /\ out.word_fields[key] = values[k]

\* every step of the loop moves to a later line, or ends the loop
ExtractionAdvances ==
    call.op = "extract" => (out'.i > out.i \/ (out'.done /\ ~out.done))

\* C27: extract_all_fields ends on every text (each turn of its loop moves
\* on by at least one line and never past the end); every line that matches
\* a field key contributes exactly one value, in text order; the lines
\* collected for the content key end before the next field line or table
\* line, which is not consumed; and instruction_no, title and issued_at are
\* each the first non-empty value of their key.
C27_FieldExtraction == [](ExtractionHolds) /\ [][ExtractionAdvances]_vars

\* a content line that collects one line of text and stops at a key line,
\* which then gives the instruction number
C27_Witness ==
    /\ call.op = "extract" /\ out.done
    /\ Len(call.lines) = 3
    /\ call.lines[1].key = "content" /\ call.lines[1].v = <<>>
    /\ call.lines[2].kind = "text"
    /\ call.lines[3].key = "instruction_no"
    /\ out.fields.content = <<<<<<CH_a, 58, CH_a>>>>>>
    /\ out.word_fields.instruction_no = <<CH_zh, 58, 32, CH_a>>

====
